---- MODULE Spec2Model ----
(***************************************************************************)
(* Model of the poorstock fetch-and-extract pipeline:                      *)
(*   src/poorstock.py  - the scraper (one identifier per process)          *)
(*   src/GetAll.py     - the batch orchestrator (EnhancedBatchRunner)      *)
(*                                                                         *)
(* The specifications share the definitions and the variables below:      *)
(*   LedgerSpec - any sequence of single-writer ledger writes              *)
(*   BucketSpec - determine_processing_strategy on any disk state          *)
(*   Spec       - one batch run (run_intelligent_batch_enhanced) with the  *)
(*                per-identifier retry loop and the scraper subprocess;    *)
(*                FairSpec adds that the run keeps moving                  *)
(*   RetryFailedSpec - one run of retry_failed_stocks                      *)
(*   RerunSpec, ValidatorSpec, BundleSpec, LegacySpec, RaceSpec,           *)
(*   DriverSpec, TableSpec, PageSpec, PacingSpec, BackoffSpec, DailySpec,  *)
(*   StaleLedgerSpec, AutoSpec - one part of the pipeline each, on inputs  *)
(*                drawn from small sets                                    *)
(***************************************************************************)
EXTENDS Integers, Sequences, FiniteSets, TLC

VARIABLES
    files,      \* output directory: identifier code -> NoFile or a saved document
    results,    \* the ledger file poorstock/download_results.csv
    latest,     \* history: filename -> success value of the most recent ledger write
    pc,         \* control state of the running program (per writer in RaceSpec)
    plan,       \* what determine_processing_strategy returned (strategy, queue, lists)
    idx,        \* batch loop: 1-based position in the work queue
    attempt,    \* run_single_with_retry: the loop variable `attempt` (0-based)
    consecutive_failures,   \* self.consecutive_failures
    ret,        \* what run_single_with_retry returned for the current identifier
    last,       \* history: what happened in the most recent attempt
    now,        \* wall clock, in seconds (it only runs where timestamps matter)
    input,      \* what the operation applied was given (its argument, the file it read)
    output      \* <<>>, or what the operations applied returned or did, in order

vars == <<files, results, latest, pc, plan, idx, attempt, consecutive_failures, ret, last,
          now, input, output>>

runVars == <<idx, attempt, consecutive_failures, ret, last, now, input, output>>

(***************************************************************************)
(* Bounds of the model.                                                    *)
(***************************************************************************)
NumStocks == 2          \* rows of the reference list StockID_TWSE_TPEX.csv

(***************************************************************************)
(* Program constants.                                                      *)
(***************************************************************************)
max_retries == 3            \* GetAll.py:58   self.max_retries
retry_mode_retries == 2     \* GetAll.py:443  run_single_with_retry(stock_id, max_retries=2)

(***************************************************************************)
(* Small helpers.                                                          *)
(***************************************************************************)
Range(s) == {s[i] : i \in 1..Len(s)}

NoDuplicates(s) == \A i, j \in 1..Len(s) : s[i] = s[j] => i = j

(***************************************************************************)
(* The reference list (stock_df): rows in file order, column '代號' is the *)
(* code and column '名稱' the display name.                                *)
(***************************************************************************)
stock_df == [i \in 1..NumStocks |-> [code |-> i, name |-> <<"name", i>>]]

StockIds == {stock_df[i].code : i \in 1..NumStocks}

\* stock_df[stock_df['代號'] == stock_id].iloc[0]['名稱']
NameOf(stock_id) ==
    stock_df[CHOOSE i \in 1..NumStocks :
                /\ stock_df[i].code = stock_id
                /\ \A j \in 1..(i - 1) : stock_df[j].code # stock_id].name

\* f"poorstock_{stock_id}_{stock_name}.md": the '_'-separated parts of the name
Filename(stock_id, stock_name) == <<"poorstock", stock_id, stock_name, ".md">>

ExpectedFilename(stock_id) == Filename(stock_id, NameOf(stock_id))

\* int(filename.split('_')[1])
StockIdOfFilename(filename) == filename[2]

Filenames == {ExpectedFilename(id) : id \in StockIds}

(***************************************************************************)
(* The ledger.  A row holds filename, last_update_time, success and        *)
(* retry_count; process_time (wall clock) is not modelled.                 *)
(* last_update_time is "MTIME" (the document's modification time) or the   *)
(* sentinel "FAILED".  retry_count is NaN (<<>>) or a number (<<n>>).      *)
(***************************************************************************)
NaN == <<>>
Num(n) == <<n>>

ScraperColumns == {"filename", "last_update_time", "success", "process_time"}
RunnerColumns == ScraperColumns \cup {"retry_count"}

MissingResults == [exists |-> FALSE, columns |-> {}, rows |-> <<>>]

\* pd.read_csv(results_file) if results_file.exists() else pd.DataFrame(columns=...)
ReadOrNew(res, columns) ==
    IF res.exists THEN res ELSE [exists |-> TRUE, columns |-> columns, rows |-> <<>>]

\* mask = results_df['filename'] == filename
Mask(rows, filename) == {i \in 1..Len(rows) : rows[i].filename = filename}

\* A plausible slip: the upsert never looks for an existing row.
ScraperUpsertAlwaysAppend(res, filename, success) ==
    LET df == ReadOrNew(res, ScraperColumns)
    IN  [exists |-> TRUE, columns |-> df.columns,
         rows |-> Append(df.rows, [filename |-> filename, last_update_time |-> "MTIME",
                                   success |-> success, retry_count |-> NaN])]

\* A plausible slip: the ledger is rewritten with the new row alone.
ScraperUpsertFresh(res, filename, success) ==
    [exists |-> TRUE, columns |-> ScraperColumns,
     rows |-> <<[filename |-> filename, last_update_time |-> "MTIME",
                 success |-> success, retry_count |-> NaN]>>]

\* A plausible slip: an existing row keeps its last_update_time.
ScraperUpsertKeepTime(res, filename, success) ==
    LET df == ReadOrNew(res, ScraperColumns)
        mask == Mask(df.rows, filename)
    IN  [exists |-> TRUE,
         columns |-> df.columns \cup ScraperColumns,
         rows |-> IF mask # {}
                  THEN [i \in 1..Len(df.rows) |->
                          IF i \in mask
                          THEN [df.rows[i] EXCEPT !.success = success]
                          ELSE df.rows[i]]
                  ELSE Append(df.rows, [filename |-> filename,
                                        last_update_time |-> "MTIME",
                                        success |-> success,
                                        retry_count |-> NaN])]

\* poorstock.py 590-611: the scraper's result upsert
ScraperUpsert(res, filename, success) ==
    LET df == ReadOrNew(res, ScraperColumns)
        mask == Mask(df.rows, filename)
    IN  [exists |-> TRUE,
         \* assigning to a column, or appending a row, creates the missing columns
         columns |-> df.columns \cup ScraperColumns,
         rows |-> IF mask # {}
                  THEN [i \in 1..Len(df.rows) |->
                          IF i \in mask
                          THEN [df.rows[i] EXCEPT !.last_update_time = "MTIME",
                                                  !.success = success]
                          ELSE df.rows[i]]
                  ELSE Append(df.rows, [filename |-> filename,
                                        last_update_time |-> "MTIME",
                                        success |-> success,
                                        retry_count |-> NaN])]

\* GetAll.py 278-303: the orchestrator's failure record
RecordFailedUpsert(res, filename, retry_count) ==
    LET df0 == ReadOrNew(res, RunnerColumns)
        \* if 'retry_count' not in results_df.columns: results_df['retry_count'] = 0
        df == IF "retry_count" \in df0.columns
              THEN df0
              ELSE [df0 EXCEPT !.columns = @ \cup {"retry_count"},
                               !.rows = [i \in 1..Len(df0.rows) |->
                                           [df0.rows[i] EXCEPT !.retry_count = Num(0)]]]
        mask == Mask(df.rows, filename)
    IN  [exists |-> TRUE,
         columns |-> df.columns \cup RunnerColumns,
         rows |-> IF mask # {}
                  THEN [i \in 1..Len(df.rows) |->
                          IF i \in mask
                          THEN [df.rows[i] EXCEPT !.success = FALSE,
                                                  !.last_update_time = "FAILED",
                                                  !.retry_count = Num(retry_count)]
                          ELSE df.rows[i]]
                  ELSE Append(df.rows, [filename |-> filename,
                                        last_update_time |-> "FAILED",
                                        success |-> FALSE,
                                        retry_count |-> Num(retry_count)])]

\* history of the most recent write per filename
NoteWrite(h, filename, success) ==
    [f \in (DOMAIN h) \cup {filename} |-> IF f = filename THEN success ELSE h[f]]

NoWrites == [f \in {} |-> FALSE]

(***************************************************************************)
(* Pages.  What one fetch of https://poorstock.com/stock/<id> can return:  *)
(*   length  - len(html)                                                   *)
(*   text    - the loading indicators present in the lower-cased visible   *)
(*             text: "LOADING_ZH" (載入中), "loading", "WAIT_ZH" (請稍候), *)
(*             "UPDATING_ZH" (資料更新中)                                  *)
(*   tables  - number of <table> elements                                  *)
(*   data    - sizes of the bundle extract_data_with_validation returns    *)
(*   cells   - which of the substrings validate_stock_file looks for occur *)
(*             in the rendered table rows: "CELL200" ('| 200'),            *)
(*             "CELL2025" ('| 2025/'), "PERCENT" ('%')                     *)
(*   ai      - whether the narrative text carries the marker 載入中        *)
(***************************************************************************)
None == [kind |-> "none"]

Html(length, text, tables, cur, daily, own, cells, ai) ==
    [kind |-> "html", length |-> length, text |-> text, tables |-> tables,
     data |-> [current_prices |-> cur, daily_prices |-> daily, ownership_data |-> own],
     cells |-> cells, ai |-> ai]

PageComplete == Html(5000, {}, 3, 4, 2, 2, {"CELL200", "CELL2025", "PERCENT"}, FALSE)
PageThin     == Html(5000, {"loading"}, 3, 3, 1, 1, {"PERCENT"}, FALSE)
PagePartial  == Html(5000, {"LOADING_ZH", "loading"}, 2, 4, 0, 2,
                     {"CELL200", "CELL2025", "PERCENT"}, FALSE)
PageNoPrices == Html(5000, {}, 2, 2, 2, 2, {"CELL200", "CELL2025", "PERCENT"}, FALSE)
PageLoading  == Html(5000, {"LOADING_ZH", "loading", "WAIT_ZH"}, 3, 4, 2, 2,
                     {"CELL200", "CELL2025", "PERCENT"}, TRUE)

Pages == {PageComplete, PageThin, PagePartial, PageNoPrices, PageLoading}

MinHtmlLength == 1000       \* poorstock.py:196  len(html) < 1000
MaxLoadingCount == 2        \* poorstock.py:211  loading_count > 2
MinTables == 2              \* poorstock.py:209  len(tables) >= 2

loading_indicators == {"LOADING_ZH", "loading", "WAIT_ZH", "UPDATING_ZH"}

\* poorstock.py 194-219
validate_html_content(html) ==
    IF html = None \/ html.length < MinHtmlLength
    THEN FALSE
    ELSE LET loading_count == Cardinality({ind \in loading_indicators : ind \in html.text})
             has_meaningful_tables == html.tables >= MinTables
         IN  IF loading_count > MaxLoadingCount THEN FALSE
             ELSE IF ~has_meaningful_tables THEN FALSE
             ELSE TRUE

MinCurrentPrices == 3       \* poorstock.py:531  len(data['current_prices']) >= 3

\* poorstock.py 530-534 and 596: success = all(success_metrics.values())
success_metrics(data) ==
    [current_prices |-> data.current_prices >= MinCurrentPrices,
     daily_prices   |-> data.daily_prices > 0,
     ownership_data |-> data.ownership_data > 0]

BundleSuccess(data) ==
    LET m == success_metrics(data)
    IN  m.current_prices /\ m.daily_prices /\ m.ownership_data

(***************************************************************************)
(* The saved document, as the set of substrings validate_stock_file looks  *)
(* for that occur in it: "LOADING_ZH" (載入中), "OPEN" (開盤), "CLOSE"     *)
(* (收盤), "CELL200", "CELL2025", "VOLUME" (成交量), "HOLDPCT" (持股比例), *)
(* "PERCENT".                                                              *)
(***************************************************************************)
\* poorstock.py 538-577 with format_current_price_table (399-411),
\* format_daily_price_table (413-426) and format_ownership_table (428-441)
DocContent(html) ==
    {"OPEN", "CLOSE"}
    \cup (IF html.data.daily_prices = 0 THEN {"LOADING_ZH"} ELSE {"VOLUME"})
    \cup (IF html.data.ownership_data = 0 THEN {"LOADING_ZH"} ELSE {"HOLDPCT"})
    \cup (IF html.ai THEN {"LOADING_ZH"} ELSE {})
    \cup html.cells

SavedFile(content, age_hours) ==
    [exists |-> TRUE, content |-> content, age_hours |-> age_hours]

FreshHours == 24            \* GetAll.py:165  age_hours > 24

\* GetAll.py 119-174
validate_stock_file(file) ==
    IF ~file.exists
    THEN [exists |-> FALSE, complete |-> FALSE, has_loading_messages |-> FALSE,
          recommendation |-> "process"]
    ELSE LET content == file.content
             has_loading_messages == "LOADING_ZH" \in content
             has_prices == "OPEN" \in content /\ "CLOSE" \in content /\ "CELL200" \in content
             has_daily_data == "CELL2025" \in content /\ "VOLUME" \in content
             has_ownership == "HOLDPCT" \in content /\ "PERCENT" \in content
             checks == Cardinality({c \in {<<1, has_prices>>, <<2, has_daily_data>>,
                                           <<3, has_ownership>>} : c[2]})
             complete == checks >= 2
         IN  [exists |-> TRUE, complete |-> complete,
              has_loading_messages |-> has_loading_messages,
              recommendation |->
                 IF has_loading_messages \/ ~complete THEN "retry"
                 ELSE IF file.age_hours > FreshHours THEN "refresh"
                 ELSE "skip"]

(***************************************************************************)
(* Bucketing.                                                              *)
(***************************************************************************)
\* the identifiers of the reference list, in file order, that validate_stock_file
\* recommends `rec` for (GetAll.py 317-328)
Recommended(df, fs, rec) ==
    LET codes == [i \in 1..Len(df) |-> df[i].code]
        Test(c) == validate_stock_file(fs[c]).recommendation = rec
    IN  SelectSeq(codes, Test)

\* failed_mask = (success == False) | (last_update_time == 'FAILED')  (GetAll.py 333-334)
FailedFiles(res) ==
    LET Test(row) == row.success = FALSE \/ row.last_update_time = "FAILED"
        sel == SelectSeq(res.rows, Test)
    IN  [i \in 1..Len(sel) |-> sel[i].filename]

RECURSIVE CollectFailed(_, _, _)
\* GetAll.py 336-342
CollectFailed(failed_files, priority_stocks, failed_stocks) ==
    IF failed_files = <<>> THEN failed_stocks
    ELSE LET stock_id == StockIdOfFilename(Head(failed_files))
         IN  CollectFailed(Tail(failed_files), priority_stocks,
                IF stock_id \notin Range(priority_stocks) /\ stock_id \notin Range(failed_stocks)
                THEN Append(failed_stocks, stock_id)
                ELSE failed_stocks)

RefreshLimit == 20          \* GetAll.py:349  refresh_stocks[:20]

\* A plausible slip: the refresh list is processed together with the priority lists.
DecideWithRefresh(priority_stocks, unprocessed_stocks, failed_stocks, refresh_stocks) ==
    IF priority_stocks # <<>> \/ unprocessed_stocks # <<>> \/ failed_stocks # <<>>
    THEN [strategy |-> "PRIORITY",
          queue |-> priority_stocks \o unprocessed_stocks \o failed_stocks \o refresh_stocks]
    ELSE IF refresh_stocks # <<>>
    THEN [strategy |-> "REFRESH", queue |-> SubSeq(refresh_stocks, 1, RefreshLimit)]
    ELSE [strategy |-> "UP_TO_DATE", queue |-> <<>>]

\* A plausible slip: the refresh list is processed whole.
DecideNoLimit(priority_stocks, unprocessed_stocks, failed_stocks, refresh_stocks) ==
    IF priority_stocks # <<>> \/ unprocessed_stocks # <<>> \/ failed_stocks # <<>>
    THEN [strategy |-> "PRIORITY",
          queue |-> priority_stocks \o unprocessed_stocks \o failed_stocks]
    ELSE IF refresh_stocks # <<>>
    THEN [strategy |-> "REFRESH", queue |-> refresh_stocks]
    ELSE [strategy |-> "UP_TO_DATE", queue |-> <<>>]

\* GetAll.py 344-351
Decide(priority_stocks, unprocessed_stocks, failed_stocks, refresh_stocks) ==
    IF priority_stocks # <<>> \/ unprocessed_stocks # <<>> \/ failed_stocks # <<>>
    THEN [strategy |-> "PRIORITY",
          queue |-> priority_stocks \o unprocessed_stocks \o failed_stocks]
    ELSE IF refresh_stocks # <<>>
    THEN [strategy |-> "REFRESH",
          queue |-> SubSeq(refresh_stocks, 1,
                           IF Len(refresh_stocks) < RefreshLimit
                           THEN Len(refresh_stocks) ELSE RefreshLimit)]
    ELSE [strategy |-> "UP_TO_DATE", queue |-> <<>>]

\* GetAll.py 308-351; the four lists are kept beside the returned pair
determine_processing_strategy(df, fs, res) ==
    LET unprocessed_stocks == Recommended(df, fs, "process")
        priority_stocks == Recommended(df, fs, "retry")
        refresh_stocks == Recommended(df, fs, "refresh")
        failed_stocks == IF res.exists
                         THEN CollectFailed(FailedFiles(res), priority_stocks, <<>>)
                         ELSE <<>>
        d == Decide(priority_stocks, unprocessed_stocks, failed_stocks, refresh_stocks)
    IN  [strategy |-> d.strategy, queue |-> d.queue,
         unprocessed_stocks |-> unprocessed_stocks, priority_stocks |-> priority_stocks,
         refresh_stocks |-> refresh_stocks, failed_stocks |-> failed_stocks]

NoPlan == [strategy |-> "NONE", queue |-> <<>>,
           unprocessed_stocks |-> <<>>, priority_stocks |-> <<>>,
           refresh_stocks |-> <<>>, failed_stocks |-> <<>>]

NoFile == [exists |-> FALSE]

(***************************************************************************)
(* The scraper process (poorstock.py).  The environment of one run:        *)
(*   direct     - what fetch_with_requests returns (a page, or None after  *)
(*                its retries are used up)                                 *)
(*   rendered1, rendered2 - what the first and the second call of          *)
(*                fetch_with_selenium return: a page, None (the fetch      *)
(*                raised), or NoDriver (setup_selenium failed, which also  *)
(*                sets self.use_selenium to False)                         *)
(***************************************************************************)
NoDriver == [kind |-> "nodriver"]

DirectOutcomes == Pages \cup {None}
RenderedOutcomes == Pages \cup {None, NoDriver}

\* poorstock.py 102-132: the html fetch_with_selenium returns
fetch_with_selenium(r) == IF r = NoDriver THEN None ELSE r

\* The environments of a run that starts with the direct strategy: the rendered
\* strategy is called (once) only if the direct html is not accepted.
EnvsDirectFirst ==
    {[direct |-> d, rendered1 |-> r1, rendered2 |-> None] :
        d \in DirectOutcomes,
        r1 \in RenderedOutcomes} \ 
    {[direct |-> d, rendered1 |-> r1, rendered2 |-> None] :
        d \in {x \in DirectOutcomes : validate_html_content(x)},
        r1 \in RenderedOutcomes \ {None}}

\* The environments of a run that starts with the rendered strategy: the direct
\* strategy is called only if the rendered html is not accepted, and the rendered
\* strategy a second time only if the browser could not be set up and the direct
\* html is not accepted either.
EnvsRenderedFirst ==
    {env \in [direct : DirectOutcomes, rendered1 : RenderedOutcomes,
              rendered2 : RenderedOutcomes] :
        /\ validate_html_content(fetch_with_selenium(env.rendered1))
              => env.direct = None /\ env.rendered2 = None
        /\ validate_html_content(env.direct) => env.rendered2 = None
        /\ env.rendered1 # NoDriver => env.rendered2 = None}

\* A plausible slip: the direct strategy's html is returned without validation.
fetch_page_unvalidated(use_selenium, env) ==
    IF use_selenium /\ validate_html_content(fetch_with_selenium(env.rendered1))
    THEN [html |-> fetch_with_selenium(env.rendered1), tried |-> <<"rendered">>]
    ELSE [html |-> env.direct,
          tried |-> (IF use_selenium THEN <<"rendered">> ELSE <<>>) \o <<"direct">>]

\* A plausible slip: no rendered fallback after the direct strategy failed.
fetch_page_no_fallback(use_selenium, env) ==
    IF use_selenium /\ validate_html_content(fetch_with_selenium(env.rendered1))
    THEN [html |-> fetch_with_selenium(env.rendered1), tried |-> <<"rendered">>]
    ELSE [html |-> IF validate_html_content(env.direct) THEN env.direct ELSE None,
          tried |-> (IF use_selenium THEN <<"rendered">> ELSE <<>>) \o <<"direct">>]

\* poorstock.py 163-192; tried lists the strategies attempted, in order
fetch_page(use_selenium, env) ==
    LET html1 == fetch_with_selenium(env.rendered1)
        tried1 == IF use_selenium THEN <<"rendered">> ELSE <<>>
        \* self.use_selenium after the first block (setup_selenium may clear it)
        use_selenium1 == use_selenium /\ env.rendered1 # NoDriver
        html2 == env.direct
        html3 == fetch_with_selenium(IF use_selenium THEN env.rendered2 ELSE env.rendered1)
    IN  IF use_selenium /\ validate_html_content(html1)
        THEN [html |-> html1, tried |-> tried1]
        ELSE IF validate_html_content(html2)
        THEN [html |-> html2, tried |-> tried1 \o <<"direct">>]
        ELSE IF ~use_selenium1
        THEN [html |-> IF validate_html_content(html3) THEN html3 ELSE None,
              tried |-> tried1 \o <<"direct", "rendered">>]
        ELSE [html |-> None, tried |-> tried1 \o <<"direct">>]

\* html = scraper.fetch_page(url): what the call can return in a process started
\* without and with --selenium
FetchResultsDirectFirst == {fetch_page(FALSE, env) : env \in EnvsDirectFirst}
FetchResultsRenderedFirst == {fetch_page(TRUE, env) : env \in EnvsRenderedFirst}

\* nothing came back before the process was stopped
NoFetch(use_selenium) ==
    [html |-> None, tried |-> IF use_selenium THEN <<"rendered">> ELSE <<"direct">>]

\* A plausible slip: a bundle that fails the gate is neither saved nor recorded.
scrape_poorstock_enhanced_skip_partial(stock_id, f, fs, res, progress) ==
    LET fetched == f.html # None
        success == fetched /\ BundleSuccess(f.html.data)
        saved == success /\ progress \in {"saved", "recorded", "exit"}
        wrote == success /\ progress \in {"recorded", "exit"}
    IN  [files |-> IF saved
                   THEN [fs EXCEPT ![stock_id] = SavedFile(DocContent(f.html), 0)]
                   ELSE fs,
         results |-> IF wrote
                     THEN ScraperUpsert(res, ExpectedFilename(stock_id), success)
                     ELSE res,
         success |-> success,
         html |-> f.html,
         tried |-> f.tried,
         saved |-> saved,
         wrote |-> wrote]

\* A plausible slip: a fetch that returned nothing is recorded in the ledger.
scrape_poorstock_enhanced_record_unfetched(stock_id, f, fs, res, progress) ==
    LET fetched == f.html # None
        success == fetched /\ BundleSuccess(f.html.data)
        saved == fetched /\ progress \in {"saved", "recorded", "exit"}
        wrote == progress \in {"recorded", "exit"}
    IN  [files |-> IF saved
                   THEN [fs EXCEPT ![stock_id] = SavedFile(DocContent(f.html), 0)]
                   ELSE fs,
         results |-> IF wrote
                     THEN ScraperUpsert(res, ExpectedFilename(stock_id), success)
                     ELSE res,
         success |-> success,
         html |-> f.html,
         tried |-> f.tried,
         saved |-> saved,
         wrote |-> wrote]

\* poorstock.py 464-619 for an identifier of the reference list, called with
\* use_selenium True or False (621-638), f being what fetch_page returned;
\* progress is how far the process got: "exit" (it returned), or, when it was
\* killed, "none", "saved" (document written) or "recorded" (ledger written too)
scrape_poorstock_enhanced(stock_id, f, fs, res, progress) ==
    LET fetched == f.html # None
        success == fetched /\ BundleSuccess(f.html.data)
        saved == fetched /\ progress \in {"saved", "recorded", "exit"}
        wrote == fetched /\ progress \in {"recorded", "exit"}
    IN  [files |-> IF saved
                   THEN [fs EXCEPT ![stock_id] = SavedFile(DocContent(f.html), 0)]
                   ELSE fs,
         results |-> IF wrote
                     THEN ScraperUpsert(res, ExpectedFilename(stock_id), success)
                     ELSE res,
         success |-> success,
         html |-> f.html,
         tried |-> f.tried,
         saved |-> saved,
         wrote |-> wrote]

(***************************************************************************)
(* run_single_with_retry (GetAll.py 176-264).                              *)
(***************************************************************************)
\* A plausible slip: retries repeat the direct strategy.
UseSeleniumNever(att) == FALSE

\* use_selenium = attempt > 0
UseSelenium(att) == att > 0

\* A plausible slip: the exit code of the scraper is not looked at.
AttemptKindIgnoringExit(subprocess, sc, file) ==
    IF subprocess = "timeout" THEN "timeout"
    ELSE IF subprocess = "exception" THEN "exception"
    ELSE IF validate_stock_file(file).complete
            /\ ~validate_stock_file(file).has_loading_messages THEN "ok"
    ELSE "incomplete"

\* GetAll.py 225-262: how one attempt ends.  subprocess is "exit" (the scraper
\* process ended), "timeout" or "exception"; file is the identifier's document
\* after the attempt
AttemptKind(subprocess, sc, file) ==
    IF subprocess = "timeout" THEN "timeout"
    ELSE IF subprocess = "exception" THEN "exception"
    ELSE IF ~sc.success THEN "nonzero"
    ELSE IF validate_stock_file(file).complete
            /\ ~validate_stock_file(file).has_loading_messages THEN "ok"
    ELSE "incomplete"

\* A plausible slip: an exception or timeout ends the retry loop at once.
AfterAttemptStopOnError(kind, att, maxr) ==
    IF kind = "ok"
    THEN [control |-> "return", ret |-> "True", record |-> FALSE, failures |-> "reset"]
    ELSE IF kind \in {"timeout", "exception"}
    THEN [control |-> "return", ret |-> "raised", record |-> FALSE, failures |-> "keep"]
    ELSE IF att = maxr - 1
    THEN [control |-> "return", ret |-> "False", record |-> TRUE,
          failures |-> IF kind = "incomplete" THEN "keep" ELSE "inc"]
    ELSE [control |-> "continue", ret |-> "none", record |-> FALSE, failures |-> "keep"]

\* A plausible slip: the last failed attempt is not recorded.
AfterAttemptNoRecord(kind, att, maxr) ==
    IF kind = "ok"
    THEN [control |-> "return", ret |-> "True", record |-> FALSE, failures |-> "reset"]
    ELSE IF att = maxr - 1
    THEN [control |-> "return", ret |-> "False", record |-> FALSE,
          failures |-> IF kind = "incomplete" THEN "keep" ELSE "inc"]
    ELSE [control |-> "continue", ret |-> "none", record |-> FALSE, failures |-> "keep"]

\* A plausible slip: a failed attempt is always followed by another one.
AfterAttemptRetryForever(kind, att, maxr) ==
    IF kind = "ok"
    THEN [control |-> "return", ret |-> "True", record |-> FALSE, failures |-> "reset"]
    ELSE [control |-> "continue", ret |-> "none", record |-> FALSE, failures |-> "keep"]

\* GetAll.py 229-262: what the loop does after an attempt of the given kind
AfterAttempt(kind, att, maxr) ==
    IF kind = "ok"
    THEN [control |-> "return", ret |-> "True", record |-> FALSE, failures |-> "reset"]
    ELSE IF att = maxr - 1
    THEN [control |-> "return", ret |-> "False", record |-> TRUE,
          failures |-> IF kind = "incomplete" THEN "keep" ELSE "inc"]
    ELSE [control |-> "continue", ret |-> "none", record |-> FALSE, failures |-> "keep"]

NoAttempt == [n |-> 0, kind |-> "none", flag |-> FALSE, tried |-> <<>>, fetch |-> "none",
              accepted |-> FALSE, bundle_ok |-> FALSE,
              wrote |-> FALSE, wrote_success |-> FALSE, doc_exists |-> FALSE]

RunIdle ==
    /\ idx = 0
    /\ attempt = 0
    /\ consecutive_failures = 0
    /\ ret = "none"
    /\ last = NoAttempt
    /\ now = 0
    /\ input = <<>>
    /\ output = <<>>

(***************************************************************************)
(* LedgerSpec: single-writer ledger writes in any order, from a missing    *)
(* ledger.                                                                 *)
(***************************************************************************)
LedgerInit ==
    /\ files = [id \in StockIds |-> NoFile]
    /\ results = MissingResults
    /\ latest = NoWrites
    /\ pc = "ledger"
    /\ plan = NoPlan
    /\ RunIdle

\* the write at the end of one scraper run (poorstock.py 586-611)
LedgerScraperWrite(id, success) ==
    /\ results' = ScraperUpsert(results, ExpectedFilename(id), success)
    /\ latest' = NoteWrite(latest, ExpectedFilename(id), success)
    /\ UNCHANGED <<files, pc, plan, runVars>>

\* record_failed_stock(stock_id, retry_count), called with the attempts used
LedgerRecordFailed(id, n) ==
    /\ results' = RecordFailedUpsert(results, ExpectedFilename(id), n)
    /\ latest' = NoteWrite(latest, ExpectedFilename(id), FALSE)
    /\ UNCHANGED <<files, pc, plan, runVars>>

LedgerNext ==
    \/ \E id \in StockIds, success \in BOOLEAN : LedgerScraperWrite(id, success)
    \/ \E id \in StockIds, n \in {max_retries, retry_mode_retries} : LedgerRecordFailed(id, n)

LedgerSpec == LedgerInit /\ [][LedgerNext]_vars

RowsOf(filename) == Mask(results.rows, filename)

\* C2: after any sequence of single-writer ledger writes the ledger has at most
\* one row per filename, and that row's success flag is the value of the most
\* recent write for that filename.
C2_OneRowLatestWrite ==
    /\ \A f \in Filenames : Cardinality(RowsOf(f)) <= 1
    /\ \A f \in DOMAIN latest :
          /\ Cardinality(RowsOf(f)) = 1
          /\ \A i \in RowsOf(f) : results.rows[i].success = latest[f]

\* A filename first recorded as failed by the orchestrator and then written as
\* successful by the scraper: two writes with different success values, one row.
C2_Witness ==
    \E f \in DOMAIN latest :
        /\ latest[f] = TRUE
        /\ \E i \in RowsOf(f) : /\ results.rows[i].retry_count = Num(max_retries)
                                /\ results.rows[i].success = TRUE
                                /\ results.rows[i].last_update_time = "MTIME"
        /\ Len(results.rows) >= 2

(***************************************************************************)
(* BucketSpec: determine_processing_strategy applied to a disk state left  *)
(* by earlier runs (documents written from validated pages, aged or not,   *)
(* or deleted; ledger rows written by the scraper or by                    *)
(* record_failed_stock).                                                   *)
(***************************************************************************)
DocContents == {DocContent(p) : p \in {q \in Pages : validate_html_content(q)}}

FileStates == {NoFile} \cup {SavedFile(c, a) : c \in DocContents, a \in {0, 25}}

LedgerRowKinds ==
    {[last_update_time |-> "MTIME", success |-> TRUE, retry_count |-> NaN],
     [last_update_time |-> "MTIME", success |-> FALSE, retry_count |-> NaN],
     [last_update_time |-> "FAILED", success |-> FALSE, retry_count |-> Num(max_retries)]}

LedgerRow(filename, kind) ==
    [filename |-> filename, last_update_time |-> kind.last_update_time,
     success |-> kind.success, retry_count |-> kind.retry_count]

LedgerRows == {LedgerRow(f, k) : f \in Filenames, k \in LedgerRowKinds}

\* duplicate-free ledgers: at most one row per filename
DiskLedgers ==
    {MissingResults} \cup
    {[exists |-> TRUE,
      columns |-> IF \E i \in 1..Len(rows) : rows[i].retry_count # NaN
                  THEN RunnerColumns ELSE ScraperColumns,
      rows |-> rows] :
        rows \in {r \in UNION {[1..n -> LedgerRows] : n \in 1..NumStocks} :
                    \A i, j \in 1..Len(r) : r[i].filename = r[j].filename => i = j}}

BucketInit ==
    /\ files \in [StockIds -> FileStates]
    /\ results \in DiskLedgers
    /\ latest = NoWrites
    /\ pc = "disk"
    /\ plan = NoPlan
    /\ RunIdle

\* strategy, stock_ids_to_process = self.determine_processing_strategy(stock_df)
Bucket ==
    /\ pc = "disk"
    /\ plan' = determine_processing_strategy(stock_df, files, results)
    /\ pc' = "bucketed"
    /\ UNCHANGED <<files, results, latest, runVars>>

BucketNext == Bucket

BucketSpec == BucketInit /\ [][BucketNext]_vars

\* the buckets of section 4.6, read off the disk state
BucketUnprocessed == {id \in StockIds : ~files[id].exists}

BucketRetryNeeded ==
    {id \in StockIds :
        /\ files[id].exists
        /\ \/ validate_stock_file(files[id]).has_loading_messages
           \/ ~validate_stock_file(files[id]).complete}

BucketRefresh ==
    {id \in StockIds :
        /\ files[id].exists
        /\ ~validate_stock_file(files[id]).has_loading_messages
        /\ validate_stock_file(files[id]).complete
        /\ files[id].age_hours > FreshHours}

BucketPreviouslyFailed ==
    {StockIdOfFilename(results.rows[i].filename) :
        i \in {j \in 1..Len(results.rows) :
                 \/ results.rows[j].success = FALSE
                 \/ results.rows[j].last_update_time = "FAILED"}}

\* the lists of determine_processing_strategy that hold identifier id
ListsHolding(id) ==
    {l \in {"unprocessed", "priority", "refresh", "failed"} :
        id \in Range(CASE l = "unprocessed" -> plan.unprocessed_stocks
                       [] l = "priority" -> plan.priority_stocks
                       [] l = "refresh" -> plan.refresh_stocks
                       [] OTHER -> plan.failed_stocks)}

\* C1 (as claimed): bucketing puts every identifier of the reference list into
\* exactly one bucket (in at most one of the four lists, up-to-date being none of
\* them), so no identifier appears more than once in the work queue.
C1_ExactlyOneBucket ==
    pc = "bucketed" =>
        /\ \A id \in StockIds : Cardinality(ListsHolding(id)) <= 1
        /\ NoDuplicates(plan.queue)

\* C10: if some identifier is unprocessed, retry-needed or previously failed, the
\* work queue holds exactly the identifiers of those three buckets, and none that
\* is only refresh-eligible.
C10_PriorityQueueExcludesRefresh ==
    (pc = "bucketed" /\ BucketUnprocessed \cup BucketRetryNeeded \cup BucketPreviouslyFailed # {})
    => /\ Range(plan.queue) =
            BucketUnprocessed \cup BucketRetryNeeded \cup BucketPreviouslyFailed
       /\ \A id \in BucketRefresh \ BucketPreviouslyFailed : id \notin Range(plan.queue)

\* One unprocessed and one refresh-eligible identifier, no failures: the queue is
\* the unprocessed identifier alone.
C10_Witness ==
    /\ pc = "bucketed"
    /\ BucketUnprocessed # {}
    /\ BucketRefresh # {}
    /\ BucketRetryNeeded = {}
    /\ BucketPreviouslyFailed = {}
    /\ Range(plan.queue) = BucketUnprocessed
    /\ plan.strategy = "PRIORITY"

(***************************************************************************)
(* Spec: one batch run, run_intelligent_batch_enhanced (GetAll.py 353-408),*)
(* on a disk left by earlier runs.  Per identifier the earlier runs left:  *)
(*   "fresh"  - no document, no ledger row                                 *)
(*   "failed" - no document, a row written by record_failed_stock          *)
(*   "done"   - a complete document and a successful row                   *)
(*   "aged"   - the same, the document older than 24 hours                 *)
(* Either no identifier has a complete document yet, or all have one.      *)
(***************************************************************************)
PriorDisks ==
    [StockIds -> {"fresh", "failed"}]
    \cup {[c \in StockIds |-> "done"], [c \in StockIds |-> "aged"]}

PriorFile(kind) ==
    CASE kind = "done" -> SavedFile(DocContent(PageComplete), 0)
      [] kind = "aged" -> SavedFile(DocContent(PageComplete), 25)
      [] OTHER -> NoFile

PriorRows(prior) ==
    LET codes == [i \in 1..NumStocks |-> stock_df[i].code]
        HasRow(c) == prior[c] # "fresh"
        withRow == SelectSeq(codes, HasRow)
    IN  [i \in 1..Len(withRow) |->
            IF prior[withRow[i]] = "failed"
            THEN [filename |-> ExpectedFilename(withRow[i]), last_update_time |-> "FAILED",
                  success |-> FALSE, retry_count |-> Num(max_retries)]
            ELSE [filename |-> ExpectedFilename(withRow[i]), last_update_time |-> "MTIME",
                  success |-> TRUE, retry_count |-> NaN]]

PriorResults(prior) ==
    IF \A c \in StockIds : prior[c] = "fresh" THEN MissingResults
    ELSE [exists |-> TRUE,
          columns |-> IF \E c \in StockIds : prior[c] = "failed"
                      THEN RunnerColumns ELSE ScraperColumns,
          rows |-> PriorRows(prior)]

Init ==
    /\ \E prior \in PriorDisks :
          /\ files = [c \in StockIds |-> PriorFile(prior[c])]
          /\ results = PriorResults(prior)
    /\ latest = NoWrites
    /\ pc = "start"
    /\ plan = NoPlan
    /\ RunIdle

CurrentStock == plan.queue[idx]

\* GetAll.py 355-369
StartBatch ==
    /\ pc = "start"
    /\ plan' = determine_processing_strategy(stock_df, files, results)
    /\ \/ /\ plan'.strategy = "UP_TO_DATE"
          /\ pc' = "done"
          /\ idx' = idx
       \/ /\ plan'.strategy # "UP_TO_DATE"
          /\ pc' = "loop"
          /\ idx' = 1
    /\ UNCHANGED <<files, results, latest, attempt, consecutive_failures, ret, last, now, input, output>>

\* GetAll.py 371-385 and 176-188: the loop takes the next identifier of the queue
\* and enters run_single_with_retry
BeginStock ==
    /\ pc = "loop"
    /\ idx <= Len(plan.queue)
    /\ pc' = "attempt"
    /\ attempt' = 0
    /\ ret' = "none"
    /\ last' = NoAttempt
    /\ UNCHANGED <<files, results, latest, plan, idx, consecutive_failures, now, input, output>>

\* GetAll.py 190-262: one iteration of the retry loop of
\* run_single_with_retry(stock_id, max_retries=maxr), the scraper subprocess
\* included
AttemptWith(maxr) ==
    /\ pc = "attempt"
    /\ \E subprocess \in {"exit", "timeout", "exception"} :
       \E progress \in (CASE subprocess = "exit" -> {"exit"}
                          [] subprocess = "timeout" -> {"none", "saved", "recorded"}
                          [] OTHER -> {"none"}) :
       \E f \in (IF progress = "none" THEN {NoFetch(UseSelenium(attempt))}
                 ELSE IF UseSelenium(attempt) THEN FetchResultsRenderedFirst
                 ELSE FetchResultsDirectFirst) :
       \E sc \in {scrape_poorstock_enhanced(CurrentStock, f, files, results, progress)} :
       \E kind \in {AttemptKind(subprocess, sc, sc.files[CurrentStock])} :
       \E after \in {AfterAttempt(kind, attempt, maxr)} :
          \* a killed process got as far as `progress` says
          /\ progress \in {"saved", "recorded"} => sc.saved
          /\ files' = sc.files
          /\ results' = IF after.record
                        THEN RecordFailedUpsert(sc.results, ExpectedFilename(CurrentStock),
                                                attempt + 1)
                        ELSE sc.results
          /\ consecutive_failures' =
                CASE after.failures = "reset" -> 0
                  [] after.failures = "inc" -> consecutive_failures + 1
                  [] OTHER -> consecutive_failures
          /\ last' = [n |-> attempt + 1,
                      kind |-> kind,
                      flag |-> UseSelenium(attempt),
                      tried |-> IF subprocess = "exception" THEN <<>> ELSE sc.tried,
                      fetch |-> IF progress = "none" THEN "killed"
                                ELSE IF sc.html = None THEN "failed" ELSE "ok",
                      accepted |-> progress # "none" /\ validate_html_content(sc.html),
                      bundle_ok |-> progress # "none" /\ sc.success,
                      wrote |-> sc.wrote,
                      wrote_success |-> sc.wrote /\ sc.success,
                      doc_exists |-> sc.files[CurrentStock].exists]
          /\ IF after.control = "return"
             THEN /\ pc' = "returned"
                  /\ ret' = after.ret
             ELSE /\ pc' = "retry_wait"
                  /\ ret' = ret
    /\ attempt' = attempt
    /\ UNCHANGED <<latest, plan, idx, now, input, output>>

\* GetAll.py 386: self.run_single_with_retry(stock_id), max_retries defaulted
Attempt == AttemptWith(max_retries)

\* GetAll.py 215-224 and 397-399: the user interrupts the batch while the scraper
\* subprocess runs.  subprocess.run kills the child, which got as far as
\* `progress`, and re-raises KeyboardInterrupt; no handler of
\* run_single_with_retry catches it, and the batch loop breaks.
Interrupt ==
    /\ pc = "attempt"
    /\ \E progress \in {"none", "saved", "recorded"} :
       \E f \in (IF progress = "none" THEN {NoFetch(UseSelenium(attempt))}
                 ELSE IF UseSelenium(attempt) THEN FetchResultsRenderedFirst
                 ELSE FetchResultsDirectFirst) :
       \E sc \in {scrape_poorstock_enhanced(CurrentStock, f, files, results, progress)} :
          /\ progress \in {"saved", "recorded"} => sc.saved
          /\ files' = sc.files
          /\ results' = sc.results
          /\ last' = [n |-> attempt + 1,
                      kind |-> "interrupted",
                      flag |-> UseSelenium(attempt),
                      tried |-> sc.tried,
                      fetch |-> IF progress = "none" THEN "killed" ELSE "ok",
                      accepted |-> progress # "none" /\ validate_html_content(sc.html),
                      bundle_ok |-> progress # "none" /\ sc.success,
                      wrote |-> sc.wrote,
                      wrote_success |-> sc.wrote /\ sc.success,
                      doc_exists |-> sc.files[CurrentStock].exists]
    /\ pc' = "interrupted"
    /\ UNCHANGED <<latest, plan, idx, attempt, consecutive_failures, ret, now, input, output>>

\* GetAll.py 190-196: the loop goes to its next iteration and waits before the
\* next attempt
RetryWait ==
    /\ pc = "retry_wait"
    /\ pc' = "attempt"
    /\ attempt' = attempt + 1
    /\ last' = NoAttempt
    /\ UNCHANGED <<files, results, latest, plan, idx, consecutive_failures, ret, now, input, output>>

\* GetAll.py 385-395: back in the batch loop, on to the next identifier
EndStock ==
    /\ pc = "returned"
    /\ pc' = "loop"
    /\ idx' = idx + 1
    /\ ret' = "none"
    /\ attempt' = 0
    /\ last' = NoAttempt
    /\ UNCHANGED <<files, results, latest, plan, consecutive_failures, now, input, output>>

\* GetAll.py 404-408: the queue is used up
Finish ==
    /\ pc = "loop"
    /\ idx > Len(plan.queue)
    /\ pc' = "done"
    /\ UNCHANGED <<files, results, latest, plan, idx, attempt, consecutive_failures, ret, last,
                   now, input, output>>

Next ==
    \/ StartBatch
    \/ BeginStock
    \/ Attempt
    \/ Interrupt
    \/ RetryWait
    \/ EndStock
    \/ Finish

Spec == Init /\ [][Next]_vars

(***************************************************************************)
(* Properties of the retry loop.  `last` describes the attempt just made   *)
(* (last.n > 0 exactly at pc = "retry_wait" and pc = "returned").          *)
(***************************************************************************)
RowsOfCurrent == RowsOf(ExpectedFilename(CurrentStock))

\* C3: when every allowed attempt for an identifier of the reference list has
\* failed and run_single_with_retry returns false, the ledger holds one entry
\* for the identifier with success = false and retry_count = the number of
\* attempts made, and the batch loop goes on to the next identifier of the queue.
C3_TerminalAccounting ==
    /\ [](pc = "returned" /\ ret = "False" =>
             /\ last.n = max_retries
             /\ last.kind \in {"nonzero", "timeout", "exception", "incomplete"}
             /\ Cardinality(RowsOfCurrent) = 1
             /\ \A i \in RowsOfCurrent :
                   /\ results.rows[i].success = FALSE
                   /\ results.rows[i].retry_count = Num(last.n))
    /\ [][pc = "returned" /\ ret = "False" =>
             /\ pc' = "loop"
             /\ idx' = idx + 1
             /\ plan' = plan]_vars
    /\ [][pc = "loop" /\ idx <= Len(plan.queue) =>
             /\ pc' = "attempt"
             /\ idx' = idx]_vars

C3_Witness ==
    /\ pc = "attempt"
    /\ idx > 1
    /\ \E i \in RowsOf(ExpectedFilename(plan.queue[idx - 1])) :
          /\ results.rows[i].success = FALSE
          /\ results.rows[i].retry_count = Num(max_retries)
    /\ consecutive_failures > 0

\* C4: whenever the scraper writes a ledger entry with success = true, the
\* output document of that filename exists and the html it was built from was
\* accepted by validate_html_content.
C4_SuccessEntryHasValidatedDocument ==
    last.wrote_success => last.doc_exists /\ last.accepted

C4_Witness ==
    /\ last.wrote_success
    /\ last.kind = "ok"
    /\ last.flag

\* C5: after every attempt for an identifier of the reference list whose scraper
\* process ran to its end, whatever the outcome, the ledger holds an entry for
\* the identifier's expected filename.
C5_EntryAfterEveryAttempt ==
    last.kind \in {"ok", "incomplete", "nonzero"} => Cardinality(RowsOfCurrent) = 1

\* C6: run_single_with_retry starts at most max_retries attempts, starts none
\* after an attempt counted successful, and an attempt that raised or timed out
\* is one failed attempt: nothing is propagated, and the next attempt is started
\* unless it was the last allowed one.
C6_BoundedAttempts ==
    /\ [](/\ attempt < max_retries
          /\ last.n <= max_retries
          /\ ret # "raised"
          /\ last.kind = "ok" => pc = "returned" /\ ret = "True"
          /\ last.kind \in {"timeout", "exception"} =>
                IF last.n < max_retries
                THEN pc = "retry_wait"
                ELSE pc = "returned" /\ ret = "False")
    /\ [][last.kind = "ok" => last'.n = 0 /\ pc' = "loop"]_vars
    /\ [][pc = "retry_wait" => pc' = "attempt" /\ attempt' = attempt + 1]_vars
    /\ [][last'.n > 0 => last'.n = attempt + 1 /\ pc = "attempt"]_vars

C6_Witness ==
    /\ last.kind \in {"timeout", "exception"}
    /\ last.n = 2
    /\ pc = "retry_wait"

\* C7: the first attempt for an identifier requests the direct strategy, and
\* every later attempt starts with the rendered strategy.
C7_RetryEscalation ==
    last.n > 0 =>
       /\ last.flag = (last.n >= 2)
       /\ last.tried # <<>> =>
             last.tried[1] = IF last.n = 1 THEN "direct" ELSE "rendered"

C7_Witness ==
    /\ last.n = 2
    /\ last.tried # <<>>
    /\ last.tried[1] = "rendered"
    /\ last.kind = "nonzero"

\* C8: an attempt is counted successful, and run_single_with_retry returns true,
\* only if in that attempt the fetched html was accepted by the content
\* validator and the extracted bundle met the bundle-success condition.
C8_SuccessNeedsValidatedBundle ==
    /\ ret = "True" => last.kind = "ok"
    /\ last.kind = "ok" => last.fetch = "ok" /\ last.accepted /\ last.bundle_ok

C8_Witness ==
    /\ ret = "True"
    /\ last.n = max_retries
    /\ last.bundle_ok

\* C9: fetch_page reports failure only after the direct and the rendered
\* strategy have each been attempted in that call, whichever came first and
\* also when the browser cannot be set up; html it returns was accepted by
\* validate_html_content.
C9_FetchFallback ==
    /\ last.fetch = "failed" => {"direct", "rendered"} \subseteq Range(last.tried)
    /\ last.fetch = "ok" => last.accepted

C9_Witness ==
    /\ last.fetch = "failed"
    /\ last.tried = <<"rendered", "direct", "rendered">>


(***************************************************************************)
(* The refresh sample and the no-op run.                                   *)
(***************************************************************************)
\* refresh lists longer than the limit
MaxRefresh == RefreshLimit + 2

\* Decide on every refresh list 1..n, the other three lists empty
RefreshSampleBounded ==
    \A n \in 0..MaxRefresh :
       LET refresh_stocks == [i \in 1..n |-> i]
           d == Decide(<<>>, <<>>, <<>>, refresh_stocks)
           size == IF n < RefreshLimit THEN n ELSE RefreshLimit
       IN  /\ d.strategy = IF n = 0 THEN "UP_TO_DATE" ELSE "REFRESH"
           /\ Len(d.queue) = size
           /\ d.queue = SubSeq(refresh_stocks, 1, size)

\* C11: when no identifier is unprocessed, retry-needed or previously failed,
\* the work queue is a sample of at most 20 of the refresh identifiers; when
\* there is no refresh identifier either, the batch run starts no attempt and
\* writes nothing to the ledger or the output directory.
C11_RefreshSampleOrNoOp ==
    /\ [](/\ RefreshSampleBounded
          /\ (/\ plan.strategy # "NONE"
              /\ plan.priority_stocks = <<>>
              /\ plan.unprocessed_stocks = <<>>
              /\ plan.failed_stocks = <<>>) =>
                /\ Range(plan.queue) \subseteq Range(plan.refresh_stocks)
                /\ Len(plan.queue) <= RefreshLimit
                /\ NoDuplicates(plan.queue)
                /\ plan.strategy = IF plan.refresh_stocks = <<>>
                                   THEN "UP_TO_DATE" ELSE "REFRESH"
          /\ plan.strategy = "UP_TO_DATE" =>
                /\ pc = "done"
                /\ idx = 0
                /\ last = NoAttempt)
    /\ [][plan'.strategy = "UP_TO_DATE" =>
             /\ files' = files
             /\ results' = results
             /\ last' = NoAttempt]_vars

C11_Witness ==
    /\ plan.strategy = "UP_TO_DATE"
    /\ pc = "done"
    /\ \A c \in StockIds : files[c].exists


(***************************************************************************)
(* RerunSpec: the scraper run by hand, `python poorstock.py <id>`, several *)
(* times in a row, with the timestamps it writes.  A run takes at least a  *)
(* second (fetch_with_requests sleeps 1-3 s before its request).           *)
(***************************************************************************)
MaxRuns == 3            \* scraper runs in a row
MaxRunSeconds == 2      \* seconds one run takes, at most

\* the document with its line **抓取時間:** datetime.now() (poorstock.py 573) and
\* the modification time the write gives it
TimedFile(file, t) ==
    [exists |-> TRUE, content |-> file.content, age_hours |-> file.age_hours,
     fetched_at |-> t, mtime |-> t]

\* the bytes of a saved document
Bytes(file) == [content |-> file.content, fetched_at |-> file.fetched_at]

\* the time columns of the rows of `filename` (poorstock.py 587-588, 598-608):
\* last_update_time holds file_mod_time, process_time the wall clock
TimedRows(res, filename, file_mod_time, process_time) ==
    [res EXCEPT !.rows =
        [i \in 1..Len(res.rows) |->
            IF res.rows[i].filename = filename
            THEN [filename |-> filename,
                  last_update_time |-> res.rows[i].last_update_time,
                  success |-> res.rows[i].success,
                  retry_count |-> res.rows[i].retry_count,
                  mtime |-> file_mod_time,
                  process_time |-> process_time]
            ELSE res.rows[i]]]

RerunInit ==
    /\ files = [id \in StockIds |-> NoFile]
    /\ results = MissingResults
    /\ latest = NoWrites
    /\ pc = "scraper"
    /\ plan = NoPlan
    /\ RunIdle

\* one run of scrape_poorstock_enhanced(stock_id, use_selenium=False) that gets
\* f from fetch_page and ends dt seconds later
ScraperRun(stock_id, f, dt) ==
    /\ last.n < MaxRuns
    /\ now' = now + dt
    /\ \E sc \in {scrape_poorstock_enhanced(stock_id, f, files, results, "exit")} :
          /\ files' = IF sc.saved
                      THEN [sc.files EXCEPT ![stock_id] = TimedFile(@, now')]
                      ELSE sc.files
          /\ results' = IF sc.wrote
                        THEN TimedRows(sc.results, ExpectedFilename(stock_id), now', now')
                        ELSE sc.results
          /\ last' = [n |-> last.n + 1, stock_id |-> stock_id, html |-> f.html,
                      success |-> sc.success]
    /\ UNCHANGED <<latest, pc, plan, idx, attempt, consecutive_failures, ret, input, output>>

RerunNext ==
    \E stock_id \in StockIds, f \in FetchResultsDirectFirst, dt \in 1..MaxRunSeconds :
       ScraperRun(stock_id, f, dt)

RerunSpec == RerunInit /\ [][RerunNext]_vars

\* the step is a run for the identifier of the run before it, on the same page
\* content, with a successful bundle
SameSuccessfulRerun ==
    /\ last.n > 0
    /\ last'.n = last.n + 1
    /\ last'.stock_id = last.stock_id
    /\ last'.html = last.html
    /\ last'.success

\* C12: running the scraper twice for the same identifier against unchanged
\* page content with a successful bundle leaves byte-identical output documents,
\* and the ledger entry has success = true after each run, the two ledger states
\* differing only in the process timestamp.
C12_IdempotentRerun ==
    [][SameSuccessfulRerun =>
          LET c == last'.stock_id
              before == RowsOf(ExpectedFilename(c))
          IN  /\ Bytes(files'[c]) = Bytes(files[c])
              /\ Len(results'.rows) = Len(results.rows)
              /\ \A i \in 1..Len(results.rows) :
                    /\ i \in before => results.rows[i].success /\ results'.rows[i].success
                    /\ [results'.rows[i] EXCEPT !.process_time = results.rows[i].process_time]
                          = results.rows[i]]_vars


(***************************************************************************)
(* ValidatorSpec: validate_html_content applied to one page, given by how  *)
(* often each loading marker occurs in its visible text, its number of     *)
(* tables and its length.                                                  *)
(***************************************************************************)
MaxOccurrences == 3     \* occurrences of one marker in a page
MaxTables == 3          \* <table> elements in a page

RECURSIVE SumOver(_, _)
SumOver(f, S) ==
    IF S = {} THEN 0
    ELSE LET x == CHOOSE y \in S : TRUE IN f[x] + SumOver(f, S \ {x})

\* all occurrences of loading markers in the text
TotalOccurrences(occ) == SumOver(occ, loading_indicators)

\* `indicator in text_content` (poorstock.py 205) sees whether a marker occurs
PresentIndicators(occ) == {ind \in loading_indicators : occ[ind] > 0}

ValidatorInputs ==
    [occ : [loading_indicators -> 0..MaxOccurrences],
     tables : 1..MaxTables,
     length : {MinHtmlLength - 1, MinHtmlLength}]

PageOf(in) == Html(in.length, PresentIndicators(in.occ), in.tables, 0, 0, 0, {}, FALSE)

ValidatorInit ==
    /\ files = [id \in StockIds |-> NoFile]
    /\ results = MissingResults
    /\ latest = NoWrites
    /\ pc = "validator"
    /\ plan = NoPlan
    /\ idx = 0
    /\ attempt = 0
    /\ consecutive_failures = 0
    /\ ret = "none"
    /\ last = NoAttempt
    /\ now = 0
    /\ input \in ValidatorInputs
    /\ output = <<>>

Validate ==
    /\ pc = "validator"
    /\ pc' = "validated"
    /\ output' = <<validate_html_content(PageOf(input))>>
    /\ UNCHANGED <<files, results, latest, plan, idx, attempt, consecutive_failures, ret,
                   last, now, input>>

ValidatorNext == Validate

ValidatorSpec == ValidatorInit /\ [][ValidatorNext]_vars

\* C13: validate_html_content marks a page incomplete when its visible text has
\* exactly 3 occurrences of a loading marker (of one marker or of several), and
\* does not reject a page for loading markers when it has exactly 2.
C13_ValidatorThreshold ==
    pc = "validated" =>
       /\ TotalOccurrences(input.occ) = 3 => output = <<FALSE>>
       /\ (/\ TotalOccurrences(input.occ) = 2
           /\ input.length >= MinHtmlLength
           /\ input.tables >= MinTables) => output = <<TRUE>>


(***************************************************************************)
(* BundleSpec: the bundle extracted from one page and the success value    *)
(* computed for it.  A row of the current-price table is given by its      *)
(* label (the first cell) and the price keys 開盤 (OPEN), 最高 (HIGH),     *)
(* 最低 (LOW), 收盤 (CLOSE) that occur in the label.                       *)
(***************************************************************************)
MaxDaily == 1           \* daily records extracted from a page
MaxOwnership == 5       \* ownership records extracted from a page

price_keys == {"OPEN", "HIGH", "LOW", "CLOSE"}

Label(text, keys) == [text |-> text, keys |-> keys]

\* labels a current-price table can have: the four keys themselves, 昨日收盤
\* (PREV_CLOSE, which contains 收盤) and 成交量 (VOLUME, which contains no key)
CurrentLabels ==
    {Label("OPEN", {"OPEN"}), Label("HIGH", {"HIGH"}), Label("LOW", {"LOW"}),
     Label("CLOSE", {"CLOSE"}), Label("PREV_CLOSE", {"CLOSE"}), Label("VOLUME", {})}

\* the dictionary written from the first data row of the daily table
\* (poorstock.py 322-327)
DailyRowPrices ==
    {Label("OPEN", {"OPEN"}), Label("HIGH", {"HIGH"}), Label("LOW", {"LOW"}),
     Label("CLOSE", {"CLOSE"})}

\* poorstock.py 303-331: the keys of data['current_prices'].  rows are the labels
\* of the dedicated table ({} when there is none); daily_row_ok says that the
\* daily table's first data row has 5 cells or more and a 2024/2025 date
extract_current_prices(rows, daily_row_ok) ==
    LET current_prices == {r \in rows : r.keys # {}}
    IN  IF Cardinality(current_prices) < 4 /\ daily_row_ok
        THEN DailyRowPrices
        ELSE current_prices

\* which of the four price fields the dictionary has a value for
FieldsPresent(current_prices) == UNION {r.keys : r \in current_prices}

BundleInputs ==
    [rows : SUBSET CurrentLabels,
     daily_row_ok : BOOLEAN,
     daily : 0..MaxDaily,
     ownership : 0..MaxOwnership]

\* the sizes success_metrics looks at (poorstock.py 530-534)
BundleOf(in) ==
    [current_prices |-> Cardinality(extract_current_prices(in.rows, in.daily_row_ok)),
     daily_prices |-> in.daily,
     ownership_data |-> in.ownership]

BundleInit ==
    /\ files = [id \in StockIds |-> NoFile]
    /\ results = MissingResults
    /\ latest = NoWrites
    /\ pc = "bundle"
    /\ plan = NoPlan
    /\ idx = 0
    /\ attempt = 0
    /\ consecutive_failures = 0
    /\ ret = "none"
    /\ last = NoAttempt
    /\ now = 0
    /\ input \in BundleInputs
    /\ output = <<>>

\* success = all(success_metrics.values())  (poorstock.py 596)
Gate ==
    /\ pc = "bundle"
    /\ pc' = "gated"
    /\ output' = <<BundleSuccess(BundleOf(input))>>
    /\ UNCHANGED <<files, results, latest, plan, idx, attempt, consecutive_failures, ret,
                   last, now, input>>

BundleNext == Gate

BundleSpec == BundleInit /\ [][BundleNext]_vars

\* C14: the success value of a bundle is true exactly when the bundle has at
\* least 3 of the 4 current-price fields (open, high, low, close), at least 1
\* daily record and at least 1 ownership record; 4 current-price fields with 0
\* daily records and 5 ownership records is a failure.
C14_BundleGate ==
    pc = "gated" =>
       LET fields ==
              FieldsPresent(extract_current_prices(input.rows, input.daily_row_ok))
       IN  /\ output = <<(/\ Cardinality(fields) >= 3
                          /\ input.daily >= 1
                          /\ input.ownership >= 1)>>
           /\ (Cardinality(fields) = 4 /\ input.daily = 0 /\ input.ownership = 5)
                 => output = <<FALSE>>


\* C15: when the page was fetched and validated but the extracted bundle fails
\* the bundle-success condition, the scraper still writes the output document
\* with the partial bundle, and the identifier's ledger entry is written with
\* success = false.
C15_PartialBundleSavedAndFailed ==
    (last.n > 0 /\ last.html # None /\ ~last.success) =>
       LET c == last.stock_id
           rows == RowsOf(ExpectedFilename(c))
       IN  /\ validate_html_content(last.html)
           /\ files[c].exists
           /\ files[c].content = DocContent(last.html)
           /\ files[c].fetched_at = now
           /\ Cardinality(rows) = 1
           /\ \A i \in rows : /\ results.rows[i].success = FALSE
                              /\ results.rows[i].process_time = now

C15_Witness ==
    /\ last.n > 1
    /\ last.html = PagePartial
    /\ "HOLDPCT" \in files[last.stock_id].content
    /\ "LOADING_ZH" \in files[last.stock_id].content
    /\ \E i \in RowsOf(ExpectedFilename(last.stock_id)) : ~results.rows[i].success


\* C16: when a user interrupt arrives while an identifier's attempt is in
\* progress, the attempt runs to completion and its outcome is accounted for
\* before the batch stops; no attempt is aborted mid-operation.
C16_InterruptDrainsAttempt ==
    pc = "interrupted" =>
       /\ last.fetch # "killed"
       /\ last.fetch = "ok" => last.wrote
       /\ ret \in {"True", "False"}
       /\ ret = "False" => \E i \in RowsOfCurrent : results.rows[i].success = FALSE


(***************************************************************************)
(* LegacySpec: one operation on a ledger file that lacks the column        *)
(* filename or the column success.  results_df[column] raises KeyError     *)
(* when the column is missing.                                             *)
(***************************************************************************)
DropColumn(res, column) ==
    [res EXCEPT !.columns = @ \ {column},
                !.rows = [i \in 1..Len(res.rows) |-> [res.rows[i] EXCEPT ![column] = NaN]]]

LegacyLedgers ==
    {DropColumn(res, column) : res \in DiskLedgers \ {MissingResults},
                               column \in {"filename", "success"}}

\* the columns read raise KeyError on this ledger
KeyError(res, columns) == res.exists /\ ~(columns \subseteq res.columns)

\* GetAll.py 330-334 and 416-418: the ledger reads of determine_processing_strategy
\* and of retry_failed_stocks; nothing around them catches the KeyError
read_failed_files(res) ==
    IF KeyError(res, {"success", "last_update_time", "filename"})
    THEN "KeyError" ELSE "returned"

\* poorstock.py 590-617: the scraper's ledger write after the document was
\* saved; the KeyError of results_df['filename'] is caught at 614 and the
\* function returns False
scraper_write(res, filename, success) ==
    IF KeyError(res, {"filename"})
    THEN [results |-> res, outcome |-> "returned False"]
    ELSE [results |-> ScraperUpsert(res, filename, success), outcome |-> "written"]

\* GetAll.py 266-306: the KeyError of results_df['filename'] is caught at 305
record_failed_stock(res, filename, retry_count) ==
    IF KeyError(res, {"filename"})
    THEN [results |-> res, outcome |-> "not recorded"]
    ELSE [results |-> RecordFailedUpsert(res, filename, retry_count), outcome |-> "written"]

LegacyInit ==
    /\ files \in [StockIds -> {NoFile, SavedFile(DocContent(PageComplete), 0)}]
    /\ results \in LegacyLedgers
    /\ latest = NoWrites
    /\ pc = "legacy"
    /\ plan = NoPlan
    /\ RunIdle

LegacyBucketing ==
    /\ pc = "legacy"
    /\ pc' = "legacy_done"
    /\ output' = <<"determine_processing_strategy", read_failed_files(results)>>
    /\ plan' = IF read_failed_files(results) = "returned"
               THEN determine_processing_strategy(stock_df, files, results)
               ELSE plan
    /\ UNCHANGED <<files, results, latest, idx, attempt, consecutive_failures, ret,
                   last, now, input>>

LegacyRetryFailed ==
    /\ pc = "legacy"
    /\ pc' = "legacy_done"
    /\ output' = <<"retry_failed_stocks", read_failed_files(results)>>
    /\ UNCHANGED <<files, results, latest, plan, idx, attempt, consecutive_failures, ret,
                   last, now, input>>

LegacyScraperWrite(stock_id, success) ==
    /\ pc = "legacy"
    /\ pc' = "legacy_done"
    /\ \E w \in {scraper_write(results, ExpectedFilename(stock_id), success)} :
          /\ results' = w.results
          /\ output' = <<"scraper", w.outcome, stock_id>>
    /\ UNCHANGED <<files, latest, plan, idx, attempt, consecutive_failures, ret,
                   last, now, input>>

LegacyRecordFailed(stock_id) ==
    /\ pc = "legacy"
    /\ pc' = "legacy_done"
    /\ \E w \in {record_failed_stock(results, ExpectedFilename(stock_id), max_retries)} :
          /\ results' = w.results
          /\ output' = <<"record_failed_stock", w.outcome, stock_id>>
    /\ UNCHANGED <<files, latest, plan, idx, attempt, consecutive_failures, ret,
                   last, now, input>>

LegacyNext ==
    \/ LegacyBucketing
    \/ LegacyRetryFailed
    \/ \E stock_id \in StockIds, success \in BOOLEAN : LegacyScraperWrite(stock_id, success)
    \/ \E stock_id \in StockIds : LegacyRecordFailed(stock_id)

LegacySpec == LegacyInit /\ [][LegacyNext]_vars

\* C17: on a ledger file that lacks an expected column, bucketing, retry-failed
\* mode, the scraper's result upsert and record_failed_stock go on as with an
\* empty ledger, no error escaping the run, and a ledger write leaves a ledger
\* with the full expected columns (and the entry written).
C17_LegacyLedgerTolerated ==
    pc = "legacy_done" =>
       /\ output[2] # "KeyError"
       /\ output[1] \in {"scraper", "record_failed_stock"} =>
             /\ output[2] = "written"
             /\ ScraperColumns \subseteq results.columns
             /\ RowsOf(ExpectedFilename(output[3])) # {}


(***************************************************************************)
(* RaceSpec: two processes write the ledger with no locking.  Writer 1 is  *)
(* a scraper run for the first identifier (poorstock.py 590-611), writer 2 *)
(* record_failed_stock for the second (GetAll.py 278-303).  Each reads the *)
(* whole file, upserts its row in memory and rewrites the whole file.      *)
(* Here pc maps a writer to "idle", "read" or "done", input maps it to     *)
(* <<>> or <<the ledger it read>>, and output lists the writers in the     *)
(* order of their writes.                                                  *)
(***************************************************************************)
Writers == {1, 2}

WriterFilename(w) == ExpectedFilename(stock_df[w].code)

\* With locking instead: the file is read again, under a lock, at the
\* moment of the write.
WrittenLedgerLocked(w, snapshot, current, success) ==
    IF w = 1
    THEN ScraperUpsert(current, WriterFilename(w), success)
    ELSE RecordFailedUpsert(current, WriterFilename(w), max_retries)

\* results_df.to_csv(results_file): what writer w leaves in the file, having read
\* snapshot, whatever the file holds by now
WrittenLedger(w, snapshot, current, success) ==
    IF w = 1
    THEN ScraperUpsert(snapshot, WriterFilename(w), success)
    ELSE RecordFailedUpsert(snapshot, WriterFilename(w), max_retries)

RaceInit ==
    /\ files = [id \in StockIds |-> NoFile]
    /\ results \in DiskLedgers
    /\ latest = NoWrites
    /\ pc = [w \in Writers |-> "idle"]
    /\ plan = NoPlan
    /\ idx = 0
    /\ attempt = 0
    /\ consecutive_failures = 0
    /\ ret = "none"
    /\ last = NoAttempt
    /\ now = 0
    /\ input = [w \in Writers |-> <<>>]
    /\ output = <<>>

\* pd.read_csv(results_file), or the empty frame when the file is missing
RaceRead(w) ==
    /\ pc[w] = "idle"
    /\ pc' = [pc EXCEPT ![w] = "read"]
    /\ input' = [input EXCEPT ![w] = <<results>>]
    /\ UNCHANGED <<files, results, latest, plan, idx, attempt, consecutive_failures, ret,
                   last, now, output>>

RaceWrite(w, success) ==
    /\ pc[w] = "read"
    /\ pc' = [pc EXCEPT ![w] = "done"]
    /\ results' = WrittenLedger(w, input[w][1], results, success)
    /\ output' = Append(output, w)
    /\ UNCHANGED <<files, latest, plan, idx, attempt, consecutive_failures, ret,
                   last, now, input>>

RaceNext ==
    \/ \E w \in Writers : RaceRead(w)
    \/ \E w \in Writers, success \in BOOLEAN : RaceWrite(w, success)

RaceSpec == RaceInit /\ [][RaceNext]_vars

RowsIn(res, filename) == Mask(res.rows, filename)

\* C18: concurrent ledger writers race with last-writer-wins: when the writer
\* that wrote last had read the file before the other writer's row for another
\* filename was in it, that row is absent from the final ledger.
C18_LastWriterWins ==
    Len(output) = 2 =>
       LET first == output[1]
           second == output[2]
       IN  /\ RowsOf(WriterFilename(second)) # {}
           /\ RowsIn(input[second][1], WriterFilename(first)) = {}
                 => RowsOf(WriterFilename(first)) = {}

\* both wrote, and the first writer's upsert is lost
C18_Witness ==
    /\ Len(output) = 2
    /\ RowsIn(input[output[1]][1], WriterFilename(output[1])) = {}
    /\ RowsOf(WriterFilename(output[1])) = {}
    /\ RowsOf(WriterFilename(output[2])) # {}


(***************************************************************************)
(* DriverSpec: one call of scrape_poorstock_enhanced, step by step, with   *)
(* the browser driver of its scraper instance.  input is the call: the     *)
(* use_selenium flag, the state of the reference list, the environment of  *)
(* the fetch, and whether the code after the fetch raises.  output is      *)
(* self.driver ("none", "open", "closed"), the number of drivers created   *)
(* and the exit path taken.  idx is the position in the strategies         *)
(* fetch_page tries.                                                       *)
(***************************************************************************)
DriverInputs ==
    {[use_selenium |-> u, csv |-> c, env |-> e, raises |-> r] :
        u \in {FALSE}, c \in {"missing", "no_row", "ok"}, e \in EnvsDirectFirst,
        r \in BOOLEAN}
    \cup
    {[use_selenium |-> u, csv |-> c, env |-> e, raises |-> r] :
        u \in {TRUE}, c \in {"missing", "no_row", "ok"}, e \in EnvsRenderedFirst,
        r \in BOOLEAN}

\* the strategies of this call's fetch_page, in order
DriverTried == fetch_page(input.use_selenium, input.env).tried

\* what the k-th strategy tried meets when it is the rendered one: the first
\* fetch_with_selenium call gets env.rendered1, a second one env.rendered2
RenderedOutcome(k) ==
    IF \E j \in 1..(k - 1) : DriverTried[j] = "rendered"
    THEN input.env.rendered2 ELSE input.env.rendered1

\* A plausible slip: the early returns leave without the cleanup.
cleanup_only_after_fetch(driver, exit) ==
    IF driver = "open" /\ exit \in {"success", "extraction failed"} THEN "closed" ELSE driver

\* poorstock.py 390-397, called from the finally block at 618-619
cleanup(driver, exit) == IF driver = "open" THEN "closed" ELSE driver

\* poorstock.py 76-100: setup_selenium when fetch_with_selenium meets `outcome`
setup_selenium(out, outcome) ==
    IF out.driver # "none" THEN out
    ELSE IF outcome = NoDriver THEN out
    ELSE [out EXCEPT !.driver = "open", !.created = @ + 1]

DriverInit ==
    /\ files = [id \in StockIds |-> NoFile]
    /\ results = MissingResults
    /\ latest = NoWrites
    /\ pc = "constructed"
    /\ plan = NoPlan
    /\ idx = 0
    /\ attempt = 0
    /\ consecutive_failures = 0
    /\ ret = "none"
    /\ last = NoAttempt
    /\ now = 0
    /\ input \in DriverInputs
    /\ output = [driver |-> "none", created |-> 0, exit |-> "none"]

driverFrame == <<files, results, latest, plan, attempt, consecutive_failures, ret, last,
                 now, input>>

\* poorstock.py 496-509: the reference list is read
DriverLoad ==
    /\ pc = "constructed"
    /\ IF input.csv = "ok"
       THEN /\ pc' = "fetch"
            /\ idx' = 1
            /\ output' = output
       ELSE /\ pc' = "finally"
            /\ idx' = idx
            /\ output' = [output EXCEPT !.exit = IF input.csv = "missing"
                                                 THEN "no reference list"
                                                 ELSE "identifier not found"]
    /\ UNCHANGED driverFrame

\* poorstock.py 163-192: fetch_page tries its next strategy
DriverTry ==
    /\ pc = "fetch"
    /\ idx <= Len(DriverTried)
    /\ idx' = idx + 1
    /\ output' = IF DriverTried[idx] = "rendered"
                 THEN setup_selenium(output, RenderedOutcome(idx))
                 ELSE output
    /\ pc' = pc
    /\ UNCHANGED driverFrame

\* poorstock.py 516-617: after fetch_page returned
DriverAfterFetch ==
    /\ pc = "fetch"
    /\ idx > Len(DriverTried)
    /\ pc' = "finally"
    /\ idx' = idx
    /\ \E html \in {fetch_page(input.use_selenium, input.env).html} :
          output' = [output EXCEPT !.exit =
                        IF html = None THEN "fetch failed"
                        ELSE IF input.raises THEN "exception"
                        ELSE IF BundleSuccess(html.data) THEN "success"
                        ELSE "extraction failed"]
    /\ UNCHANGED driverFrame

\* poorstock.py 618-619: finally: scraper.cleanup(), then the function returns
DriverFinally ==
    /\ pc = "finally"
    /\ pc' = "returned"
    /\ output' = [output EXCEPT !.driver = cleanup(output.driver, output.exit)]
    /\ UNCHANGED <<idx, driverFrame>>

DriverNext ==
    \/ DriverLoad
    \/ DriverTry
    \/ DriverAfterFetch
    \/ DriverFinally

DriverSpec == DriverInit /\ [][DriverNext]_vars

\* C19: the browser driver is created only when the rendered strategy is
\* attempted, at most one per scraper instance, and on every exit path of
\* scrape_poorstock_enhanced a created driver has been shut down before the
\* function returns.
C19_DriverLifecycle ==
    /\ output.created <= 1
    /\ output.driver # "none" =>
          /\ output.created = 1
          /\ pc # "constructed"
          /\ \E k \in 1..(idx - 1) : DriverTried[k] = "rendered"
    /\ pc = "returned" =>
          /\ output.driver # "open"
          /\ output.created = 1 => output.driver = "closed"
          /\ output.exit \in {"no reference list", "identifier not found", "fetch failed",
                              "exception", "extraction failed", "success"}

\* a driver created by the fallback after the direct strategy failed, on a run
\* that ends in an exception, is closed at the return
C19_Witness ==
    /\ pc = "returned"
    /\ output.exit = "exception"
    /\ output.driver = "closed"
    /\ ~input.use_selenium


\* the filenames that have a row in the ledger
FilenamesIn(res) == {res.rows[i].filename : i \in 1..Len(res.rows)}

\* C20: with a single writer no ledger write removes a row: across scraper
\* result upserts and orchestrator failure records the set of filenames in the
\* ledger never shrinks.
C20_LedgerNeverShrinks ==
    [][/\ FilenamesIn(results) \subseteq FilenamesIn(results')
       /\ Len(results.rows) <= Len(results'.rows)]_vars

\* every filename has a row, each of them written more than once, the last time
\* by record_failed_stock
C20_Witness ==
    /\ FilenamesIn(results) = Filenames
    /\ DOMAIN latest = Filenames
    /\ \A i \in 1..Len(results.rows) :
          /\ results.rows[i].last_update_time = "FAILED"
          /\ results.rows[i].retry_count = Num(retry_mode_retries)


(***************************************************************************)
(* Tables of a page.  A <table> element is given by                        *)
(*   id      - its cell values (tables that differ only in id have the     *)
(*             same shape and different values)                            *)
(*   rows    - len(table.find_all('tr'))                                   *)
(*   loading - whether table.get_text() contains 載入中, loading or 請稍候 *)
(*   header  - the tokens that occur in the cells of rows[0]: "DATE"       *)
(*             (日期), "OPEN" (開盤), "HIGH" (最高), "LOW" (最低), "CLOSE" *)
(*             (收盤), "HOLDPCT" (持股比例), "LOTS100" (100張)             *)
(*   year    - the year of the date the data rows start with, 0 when their *)
(*             first cell is not a date                                    *)
(*   width   - the number of cells of a data row                           *)
(*   labels  - the first cells of the rows that have two cells or more, as *)
(*             current-price labels                                        *)
(***************************************************************************)
MaxRows == 61           \* <tr> elements in a table

header_tokens == {"DATE", "OPEN", "HIGH", "LOW", "CLOSE", "HOLDPCT", "LOTS100"}

Table(id, rows, loading, header, year, width, labels) ==
    [id |-> id, rows |-> rows, loading |-> loading, header |-> header,
     year |-> year, width |-> width, labels |-> labels]

DailyMinRows == 20          \* poorstock.py:237  len(rows) > 20
OwnershipMinRows == 5       \* poorstock.py:248  5 < len(rows)
OwnershipMaxRows == 60      \* poorstock.py:248  len(rows) < 60
CurrentMaxRows == 10        \* poorstock.py:253  len(rows) <= 10

\* re.match(r'202[0-9]/\d{2}/\d{2}', cells[0]) on a date of the given year
MatchesAnyYear(year) == year \in 2020..2029

\* poorstock.py 221-261.  The daily rule's `if` heads the chain: when its
\* condition holds and no data row verifies, control leaves the chain.
identify_table_by_content(table) ==
    IF table.rows < 2 THEN "unknown"
    ELSE IF table.loading THEN "loading"
    ELSE IF /\ table.rows > DailyMinRows
            /\ "DATE" \in table.header
            /\ {"OPEN", "CLOSE"} \cap table.header # {}
    THEN IF MatchesAnyYear(table.year) THEN "daily_prices" ELSE "unknown"
    ELSE IF /\ OwnershipMinRows < table.rows
            /\ table.rows < OwnershipMaxRows
            /\ {"HOLDPCT", "LOTS100"} \cap table.header # {}
    THEN "ownership"
    ELSE IF /\ table.rows <= CurrentMaxRows
            /\ {"OPEN", "CLOSE", "HIGH", "LOW"} \cap table.header # {}
    THEN "current_prices"
    ELSE "unknown"

(***************************************************************************)
(* TableSpec: identify_table_by_content applied to one table.              *)
(***************************************************************************)
TableYears == {0, 2019, 2025}

\* a table without rows has no cells, one without data rows no dates
TableInputs ==
    {t \in [id : {"T"}, rows : 0..MaxRows, loading : BOOLEAN,
            header : SUBSET header_tokens, year : TableYears,
            width : {6}, labels : {{}}] :
        /\ t.rows = 0 => ~t.loading /\ t.header = {}
        /\ t.rows < 2 => t.year = 0}

TableInit ==
    /\ files = [id \in StockIds |-> NoFile]
    /\ results = MissingResults
    /\ latest = NoWrites
    /\ pc = "table"
    /\ plan = NoPlan
    /\ idx = 0
    /\ attempt = 0
    /\ consecutive_failures = 0
    /\ ret = "none"
    /\ last = NoAttempt
    /\ now = 0
    /\ input \in TableInputs
    /\ output = <<>>

Identify ==
    /\ pc = "table"
    /\ pc' = "identified"
    /\ output' = <<identify_table_by_content(input)>>
    /\ UNCHANGED <<files, results, latest, plan, idx, attempt, consecutive_failures, ret,
                   last, now, input>>

TableNext == Identify

TableSpec == TableInit /\ [][TableNext]_vars


\* the DailySeries rule: many rows, a date and a price token in the header, and
\* one of the first data rows starting with a date
QualifiesDaily(table) ==
    /\ table.rows > DailyMinRows
    /\ "DATE" \in table.header
    /\ {"OPEN", "CLOSE"} \cap table.header # {}
    /\ MatchesAnyYear(table.year)

\* C29: the classification rules are tried in order with fall-through: a table
\* with rows and no loading marker that does not qualify as DailySeries is
\* classified Ownership when it has between 6 and 59 rows and an
\* ownership-bracket token in its header.
C29_ClassifierFallThrough ==
    (/\ pc = "identified"
     /\ input.rows >= 2
     /\ ~input.loading
     /\ ~QualifiesDaily(input)
     /\ OwnershipMinRows < input.rows
     /\ input.rows < OwnershipMaxRows
     /\ {"HOLDPCT", "LOTS100"} \cap input.header # {})
       => output = <<"ownership">>

\* C30: every table with a loading marker in one of its cells is classified
\* StillLoading, whatever its row count, before every other rule.
C30_LoadingTakesPrecedence ==
    pc = "identified" => (input.loading => output = <<"loading">>)


(***************************************************************************)
(* PageSpec: extract_data_with_validation applied to a page, given as its  *)
(* <table> elements in document order, and to the same page with two of    *)
(* its tables exchanged.                                                   *)
(***************************************************************************)
NoTable == [id |-> "none"]

all_price_tokens == {"DATE", "OPEN", "HIGH", "LOW", "CLOSE"}

\* tables as the site serves them: two daily series and two ownership tables
\* with different values, a full and a short current-price table, and a table
\* that is still loading
SampleTables ==
    {Table("D1", 25, FALSE, all_price_tokens, 2025, 6, {}),
     Table("D2", 31, FALSE, all_price_tokens, 2025, 6, {}),
     Table("O1", 12, FALSE, {"DATE", "HOLDPCT"}, 2025, 5, {}),
     Table("O2", 9, FALSE, {"DATE", "LOTS100"}, 2024, 5, {}),
     Table("C1", 5, FALSE, {"OPEN"}, 0, 2,
           {Label("OPEN", {"OPEN"}), Label("HIGH", {"HIGH"}), Label("LOW", {"LOW"}),
            Label("CLOSE", {"CLOSE"})}),
     Table("C2", 3, FALSE, {"OPEN"}, 0, 2,
           {Label("OPEN", {"OPEN"}), Label("CLOSE", {"CLOSE"})}),
     Table("L1", 3, TRUE, {}, 0, 1, {})}

\* re.match(r'202[45]/\d{2}/\d{2}', cells[0])  (poorstock.py 321 and 346)
MatchesDailyYear(year) == year \in {2024, 2025}

\* re.match(r'202[345]/\d{2}/\d{2}', cells[0])  (poorstock.py 372)
MatchesOwnershipYear(year) == year \in {2023, 2024, 2025}

\* poorstock.py 332-358: the records appended, as their number and the table
\* their values come from
extract_daily_prices(daily_table) ==
    IF daily_table = NoTable THEN [n |-> 0, from |-> "none"]
    ELSE IF daily_table.width >= 6 /\ MatchesDailyYear(daily_table.year)
    THEN [n |-> daily_table.rows - 1, from |-> daily_table.id]
    ELSE [n |-> 0, from |-> "none"]

\* poorstock.py 360-388
extract_ownership_data(ownership_table) ==
    IF ownership_table = NoTable THEN [n |-> 0, from |-> "none"]
    ELSE IF ownership_table.width >= 5 /\ MatchesOwnershipYear(ownership_table.year)
    THEN [n |-> ownership_table.rows - 1, from |-> ownership_table.id]
    ELSE [n |-> 0, from |-> "none"]

\* poorstock.py 303-331 on tables: the dictionary's keys and the table its
\* values come from
current_prices_of(current_table, daily_table) ==
    LET rows == IF current_table = NoTable THEN {} ELSE current_table.labels
        own == {r \in rows : r.keys # {}}
        daily_row_ok == /\ daily_table # NoTable
                        /\ daily_table.rows >= 2
                        /\ daily_table.width >= 5
                        /\ MatchesDailyYear(daily_table.year)
        keys == extract_current_prices(rows, daily_row_ok)
    IN  [keys |-> keys,
         from |-> IF Cardinality(own) < 4 /\ daily_row_ok THEN daily_table.id
                  ELSE IF own # {} THEN current_table.id
                  ELSE "none"]

\* the table the loop of poorstock.py 277-289 leaves in the variable of a role:
\* the last table of the page identified with it
TableOfRole(tables, role) ==
    LET S == {i \in 1..Len(tables) : identify_table_by_content(tables[i]) = role}
    IN  IF S = {} THEN NoTable
        ELSE tables[CHOOSE i \in S : \A j \in S : j <= i]

\* the bundle built from the three tables chosen
DataOf(current_table, daily_table, ownership_table) ==
    [current_prices |-> current_prices_of(current_table, daily_table),
     daily_prices |-> extract_daily_prices(daily_table),
     ownership_data |-> extract_ownership_data(ownership_table)]

\* A plausible slip: the tables are taken by their position in the page.
extract_data_by_position(tables) ==
    LET At(i) == IF i <= Len(tables) THEN tables[i] ELSE NoTable
    IN  DataOf(At(1), At(2), At(3))

\* poorstock.py 263-301
extract_data_with_validation(tables) ==
    DataOf(TableOfRole(tables, "current_prices"),
           TableOfRole(tables, "daily_prices"),
           TableOfRole(tables, "ownership"))

\* the page with the tables at positions i and j exchanged
Swapped(tables, i, j) ==
    [k \in 1..Len(tables) |->
        IF k = i THEN tables[j] ELSE IF k = j THEN tables[i] ELSE tables[k]]

RolesOf(tables) == [k \in 1..Len(tables) |-> identify_table_by_content(tables[k])]

PageInputs ==
    {[tables |-> t, i |-> i, j |-> j] :
        t \in UNION {[1..n -> SampleTables] : n \in 2..MaxTables},
        i \in 1..MaxTables, j \in 1..MaxTables} 

PageInit ==
    /\ files = [id \in StockIds |-> NoFile]
    /\ results = MissingResults
    /\ latest = NoWrites
    /\ pc = "page"
    /\ plan = NoPlan
    /\ idx = 0
    /\ attempt = 0
    /\ consecutive_failures = 0
    /\ ret = "none"
    /\ last = NoAttempt
    /\ now = 0
    /\ input \in {in \in PageInputs : in.i < in.j /\ in.j <= Len(in.tables)}
    /\ output = <<>>

\* the page and the exchanged page are each scraped
ExtractBoth ==
    /\ pc = "page"
    /\ pc' = "extracted"
    /\ output' = [roles |-> RolesOf(input.tables),
                  data |-> extract_data_with_validation(input.tables),
                  roles_swapped |-> RolesOf(Swapped(input.tables, input.i, input.j)),
                  data_swapped |->
                     extract_data_with_validation(Swapped(input.tables, input.i, input.j))]
    /\ UNCHANGED <<files, results, latest, plan, idx, attempt, consecutive_failures, ret,
                   last, now, input>>

PageNext == ExtractBoth

PageSpec == PageInit /\ [][PageNext]_vars

\* the tables at i and j are the page's ownership table and its daily-series
\* table, in either order
SwapsOwnershipAndDaily ==
    /\ {output.roles[input.i], output.roles[input.j]} = {"ownership", "daily_prices"}
    /\ \A k \in 1..Len(input.tables) :
          k \notin {input.i, input.j} =>
             output.roles[k] \notin {"ownership", "daily_prices"}

\* C21: for two pages that differ only in the document order of the ownership
\* table and the daily-series table, each table has the same role in both
\* pages and both pages yield the same bundle.
C21_RolesFromContent ==
    (pc = "extracted" /\ SwapsOwnershipAndDaily) =>
       /\ output.roles_swapped[input.j] = output.roles[input.i]
       /\ output.roles_swapped[input.i] = output.roles[input.j]
       /\ output.data_swapped = output.data

\* the ownership table comes first in one page and second in the other, and the
\* bundle has records of both tables and current prices from the daily series
C21_Witness ==
    /\ pc = "extracted"
    /\ SwapsOwnershipAndDaily
    /\ output.roles[input.i] = "ownership"
    /\ output.data.daily_prices.n > 0
    /\ output.data.ownership_data.n > 0
    /\ output.data.current_prices.from = output.data.daily_prices.from


(***************************************************************************)
(* PacingSpec: calculate_dynamic_delay (GetAll.py 104-117) called with the *)
(* consecutive-failure counter at 0, 1, 2, ... and one jitter value.       *)
(* Durations are counted in ticks; random.uniform is drawn on the grid of  *)
(* ticks, both ends of its range included.                                 *)
(***************************************************************************)
JitterSteps == 4        \* grid points per half second
MaxFailures == 7        \* consecutive failures before a call

TicksPerSecond == 2 * JitterSteps

Seconds(n) == n * TicksPerSecond

Min(a, b) == IF a <= b THEN a ELSE b

\* random.uniform(lo, hi), lo and hi in half seconds
Uniform(lo_halves, hi_halves) == (lo_halves * JitterSteps)..(hi_halves * JitterSteps)

base_delay == 8             \* GetAll.py:52
max_delay == 30             \* GetAll.py:53
failure_penalty == 5        \* GetAll.py:54

\* jitter = random.uniform(0.5, 2.0)
DelayJitters == Uniform(1, 4)

\* A plausible slip: the total is returned without the final cap.
calculate_dynamic_delay_uncapped(failures, jitter) ==
    LET penalty == IF failures > 0
                   THEN Min(Seconds(failures * failure_penalty),
                            Seconds(max_delay - base_delay))
                   ELSE 0
    IN  Seconds(base_delay) + penalty + jitter

\* GetAll.py 104-117
calculate_dynamic_delay(failures, jitter) ==
    LET penalty == IF failures > 0
                   THEN Min(Seconds(failures * failure_penalty),
                            Seconds(max_delay - base_delay))
                   ELSE 0
        delay == Seconds(base_delay) + penalty + jitter
    IN  Min(delay, Seconds(max_delay))

PacingInit ==
    /\ files = [id \in StockIds |-> NoFile]
    /\ results = MissingResults
    /\ latest = NoWrites
    /\ pc = "pacing"
    /\ plan = NoPlan
    /\ idx = 0
    /\ attempt = 0
    /\ consecutive_failures = 0
    /\ ret = "none"
    /\ last = NoAttempt
    /\ now = 0
    /\ input \in DelayJitters
    /\ output = <<>>

\* the delay is computed, and then one more identifier fails
Delay ==
    /\ pc = "pacing"
    /\ consecutive_failures <= MaxFailures
    /\ output' = Append(output, calculate_dynamic_delay(consecutive_failures, input))
    /\ consecutive_failures' = consecutive_failures + 1
    /\ UNCHANGED <<files, results, latest, pc, plan, idx, attempt, ret, last, now, input>>

PacingNext == Delay

PacingSpec == PacingInit /\ [][PacingNext]_vars

\* C22: for every consecutive-failure count and every jitter value the delay
\* is at least the base delay and at most the maximum delay, and for a fixed
\* jitter it does not decrease when the consecutive-failure count grows.
C22_DelayBoundedAndMonotone ==
    pc = "pacing" =>
       \A k \in 1..Len(output) :
          /\ Seconds(base_delay) <= output[k]
          /\ output[k] <= Seconds(max_delay)
          /\ k > 1 => output[k - 1] <= output[k]

\* from the smallest jitter the delay grows with the failures up to the maximum
C22_Witness ==
    /\ pc = "pacing"
    /\ input = JitterSteps
    /\ Len(output) > 5
    /\ output[1] < output[2]
    /\ output[Len(output)] = Seconds(max_delay)


(***************************************************************************)
(* BackoffSpec: the waits of the two retry loops, for one identifier:      *)
(*   "runner"   - run_single_with_retry (GetAll.py 190-196)                *)
(*   "requests" - fetch_with_requests (poorstock.py 134-141)               *)
(* input names the loop, attempt is its loop variable and output the waits *)
(* slept so far.                                                           *)
(***************************************************************************)
retry_delay_base == 10      \* GetAll.py:59
requests_retries == 3       \* poorstock.py:134  retries=3

\* A plausible slip: the base is not doubled per attempt.
retry_delay_flat(att, jitter) == Seconds(retry_delay_base) + jitter

\* delay = self.retry_delay_base * (2 ** (attempt - 1)) + random.uniform(1, 5)
retry_delay(att, jitter) == Seconds(retry_delay_base * 2^(att - 1)) + jitter

RetryJitters == Uniform(2, 10)

\* delay = (2 ** attempt) + random.uniform(1, 3)
requests_delay(att, jitter) == Seconds(2^att) + jitter

RequestsJitters == Uniform(2, 6)

BackoffInit ==
    /\ files = [id \in StockIds |-> NoFile]
    /\ results = MissingResults
    /\ latest = NoWrites
    /\ pc = "backoff"
    /\ plan = NoPlan
    /\ idx = 0
    /\ attempt = 0
    /\ consecutive_failures = 0
    /\ ret = "none"
    /\ last = NoAttempt
    /\ now = 0
    /\ input \in {"runner", "requests"}
    /\ output = <<>>

\* the attempt failed and the loop sleeps before its next iteration
RunnerWait ==
    /\ pc = "backoff"
    /\ input = "runner"
    /\ attempt + 1 < max_retries
    /\ attempt' = attempt + 1
    /\ \E jitter \in RetryJitters :
          output' = Append(output, retry_delay(attempt', jitter))
    /\ UNCHANGED <<files, results, latest, pc, plan, idx, consecutive_failures, ret, last,
                   now, input>>

RequestsWait ==
    /\ pc = "backoff"
    /\ input = "requests"
    /\ attempt + 1 < requests_retries
    /\ attempt' = attempt + 1
    /\ \E jitter \in RequestsJitters :
          output' = Append(output, requests_delay(attempt', jitter))
    /\ UNCHANGED <<files, results, latest, pc, plan, idx, consecutive_failures, ret, last,
                   now, input>>

BackoffNext ==
    \/ RunnerWait
    \/ RequestsWait

BackoffSpec == BackoffInit /\ [][BackoffNext]_vars

ForeignId == NumStocks + 1

RetryDisks ==
    [ids : [StockIds -> {"fresh", "failed", "done", "done_failed"}], foreign : BOOLEAN]

RetryDiskRows(disk) ==
    LET codes == [i \in 1..NumStocks |-> stock_df[i].code]
        HasRow(c) == disk.ids[c] # "fresh"
        withRow == SelectSeq(codes, HasRow)
        own == [i \in 1..Len(withRow) |->
                  IF disk.ids[withRow[i]] = "done"
                  THEN [filename |-> ExpectedFilename(withRow[i]),
                        last_update_time |-> "MTIME", success |-> TRUE, retry_count |-> NaN]
                  ELSE [filename |-> ExpectedFilename(withRow[i]),
                        last_update_time |-> "FAILED", success |-> FALSE,
                        retry_count |-> Num(max_retries)]]
    IN  own \o (IF disk.foreign
                THEN <<[filename |-> Filename(ForeignId, <<"name", ForeignId>>),
                        last_update_time |-> "FAILED", success |-> FALSE,
                        retry_count |-> Num(max_retries)]>>
                ELSE <<>>)

RetryDiskResults(disk) ==
    IF RetryDiskRows(disk) = <<>> THEN MissingResults
    ELSE [exists |-> TRUE, columns |-> RunnerColumns, rows |-> RetryDiskRows(disk)]

\* the two ends of a random.uniform range given in half seconds
UniformEnds(lo_halves, hi_halves) == {lo_halves * JitterSteps, hi_halves * JitterSteps}

\* GetAll.py 438: delay = 15 + random.uniform(5, 10)
retry_session_delay(jitter) == Seconds(15) + jitter

\* A plausible slip: the failed mask is not applied to the ledger's rows.
failed_stock_ids_unmasked(res) ==
    [i \in 1..Len(res.rows) |-> StockIdOfFilename(res.rows[i].filename)]

\* GetAll.py 416-426: failed_stock_ids
failed_stock_ids(res) ==
    LET failed_files == FailedFiles(res)
    IN  [i \in 1..Len(failed_files) |-> StockIdOfFilename(failed_files[i])]

RetryFailedInit ==
    /\ \E disk \in RetryDisks :
          /\ files = [c \in StockIds |->
                        IF disk.ids[c] \in {"done", "done_failed"}
                        THEN SavedFile(DocContent(PageComplete), 0) ELSE NoFile]
          /\ results = RetryDiskResults(disk)
    /\ latest = NoWrites
    /\ pc = "start"
    /\ plan = NoPlan
    /\ RunIdle

\* GetAll.py 412-430
StartRetryFailed ==
    /\ pc = "start"
    /\ plan' = [NoPlan EXCEPT !.strategy = "RETRY_FAILED",
                              !.queue = IF results.exists THEN failed_stock_ids(results)
                                        ELSE <<>>]
    /\ IF plan'.queue = <<>>
       THEN pc' = "done" /\ idx' = idx
       ELSE pc' = "loop" /\ idx' = 1
    /\ UNCHANGED <<files, results, latest, attempt, consecutive_failures, ret, last, now,
                   input, output>>

\* GetAll.py 433-443 and 176-188: the session's wait before every identifier
\* but the first, then run_single_with_retry, which returns False at once for
\* an identifier that is not in the reference list
RetryFailedBegin ==
    /\ pc = "loop"
    /\ idx <= Len(plan.queue)
    /\ IF idx > 1
       THEN \E jitter \in UniformEnds(10, 20) :
               output' = <<"identifier", idx, retry_session_delay(jitter)>>
       ELSE output' = output
    /\ IF CurrentStock \in StockIds
       THEN pc' = "attempt" /\ ret' = "none"
       ELSE pc' = "returned" /\ ret' = "False"
    /\ attempt' = 0
    /\ last' = NoAttempt
    /\ UNCHANGED <<files, results, latest, plan, idx, consecutive_failures, now, input>>

\* GetAll.py 443: self.run_single_with_retry(stock_id, max_retries=2)
RetryFailedAttempt == AttemptWith(retry_mode_retries)

\* GetAll.py 190-196: the wait before the next attempt
RetryFailedWait ==
    /\ pc = "retry_wait"
    /\ pc' = "attempt"
    /\ attempt' = attempt + 1
    /\ last' = NoAttempt
    /\ \E jitter \in UniformEnds(2, 10) :
          output' = <<"attempt", attempt', retry_delay(attempt', jitter)>>
    /\ UNCHANGED <<files, results, latest, plan, idx, consecutive_failures, ret, now, input>>

RetryFailedNext ==
    \/ StartRetryFailed
    \/ RetryFailedBegin
    \/ RetryFailedAttempt
    \/ RetryFailedWait
    \/ Interrupt
    \/ EndStock
    \/ Finish

RetryFailedSpec == RetryFailedInit /\ [][RetryFailedNext]_vars


\* the queue of a retry-failed run holds the identifiers the ledger marks
\* failed, whatever documents exist, and the loop takes them in order; an
\* identifier that is not in the reference list gets no attempt
RetryFailedQueue ==
    /\ [](pc = "loop" /\ idx = 1 => Range(plan.queue) = BucketPreviouslyFailed)
    /\ [](pc \in {"attempt", "retry_wait"} => CurrentStock \in StockIds)
    /\ [][pc = "loop" /\ idx <= Len(plan.queue) =>
             pc' \in {"attempt", "returned"} /\ idx' = idx /\ plan' = plan]_vars
    /\ [][pc = "loop" /\ idx > Len(plan.queue) => pc' = "done"]_vars
    /\ [][pc = "returned" => pc' = "loop" /\ idx' = idx + 1 /\ plan' = plan]_vars

\* at most retry_mode_retries attempts per identifier, and a failed identifier
\* of the reference list got them all
RetryFailedCeiling ==
    [](/\ attempt < retry_mode_retries
       /\ last.n <= retry_mode_retries
       /\ (pc = "returned" /\ ret = "False" /\ CurrentStock \in StockIds)
             => last.n = retry_mode_retries)

\* C24 (as claimed): retry-failed mode processes exactly the identifiers whose
\* ledger entry is marked failed, independently of the documents on disk, each
\* with at most 2 attempts, and every wait between two attempts is longer than
\* the normal batch mode's wait before the same attempt (than the shortest one
\* its jitter allows).
C24_RetryFailedLongerAttemptWaits ==
    /\ RetryFailedQueue
    /\ RetryFailedCeiling
    /\ [](output # <<>> /\ output[1] = "attempt" =>
             \A jitter \in UniformEnds(2, 2) : output[3] > retry_delay(output[2], jitter))

\* C24 (amended): the same queue and ceiling; the waits between attempts are
\* those of the normal batch mode, and the wait between two identifiers, 15
\* seconds plus a jitter of 5 to 10, is longer than the normal mode's delay
\* between identifiers when no identifier has just failed.
C24_RetryFailedMode ==
    /\ RetryFailedQueue
    /\ RetryFailedCeiling
    /\ [](output # <<>> /\ output[1] = "attempt" =>
             \E jitter \in RetryJitters : output[3] = retry_delay(output[2], jitter))
    /\ [](output # <<>> /\ output[1] = "identifier" =>
             /\ Seconds(20) <= output[3]
             /\ output[3] <= Seconds(25)
             /\ \A jitter \in DelayJitters : output[3] > calculate_dynamic_delay(0, jitter))

\* the second attempt for an identifier whose document is complete and fresh
\* and whose ledger row is failed, while an identifier without document and
\* without row is not in the queue
C24_Witness ==
    /\ pc = "attempt"
    /\ plan.strategy = "RETRY_FAILED"
    /\ attempt = 1
    /\ output # <<>>
    /\ output[1] = "attempt"
    /\ validate_stock_file(files[CurrentStock]).recommendation = "skip"
    /\ \E id \in StockIds : ~files[id].exists /\ id \notin Range(plan.queue)


(***************************************************************************)
(* The command line of GetAll.py (main, 487-520): `--all` and no option    *)
(* both call run_intelligent_batch_enhanced, the run Spec describes.       *)
(***************************************************************************)
\* C25: a run started with --all processes every identifier of the reference
\* list, those with a complete and fresh document and a successful ledger
\* entry included: when the run has ended, every identifier was in its queue.
C25_AllProcessesEveryIdentifier ==
    pc = "done" => Range(plan.queue) = StockIds

ControlStates ==
    {"start", "loop", "attempt", "retry_wait", "returned", "done", "interrupted"}

\* the final report was printed (GetAll.py 363, 401-402)
Terminated == pc \in {"done", "interrupted"}

\* control leaves the position it is at
Proceeds == ~Terminated /\ pc' \in ControlStates \ {pc}

\* Every sleep of the run is finite and the scraper subprocess is given 60
\* seconds (GetAll.py:223), so the run does not stay at one position for ever.
FairSpec == Spec /\ WF_pc(Proceeds)

\* the attempts started so far are at most this many
AttemptRank == idx * max_retries + attempt

\* C26: a batch run terminates: it reaches its final report, by using up the
\* queue or by the break that follows an interrupt, after at most (queue
\* length x retry ceiling) attempts: the queue position and the attempt number
\* stay within their ranges, no attempt is repeated, and every wait and every
\* return moves the run forward.
C26_BatchTerminates ==
    /\ <>Terminated
    /\ [](~Terminated => ENABLED Next)
    /\ [][pc' # pc]_vars
    /\ [](/\ idx <= Len(plan.queue) + 1
          /\ attempt < max_retries
          /\ pc \in {"attempt", "retry_wait", "returned"} => idx \in 1..Len(plan.queue))
    /\ [][AttemptRank <= AttemptRank']_vars
    /\ [][(pc \in {"retry_wait", "returned"}) => AttemptRank < AttemptRank']_vars
    /\ [][pc = "attempt" => pc' # "attempt"]_vars

\* the last identifier of the queue failed its last allowed attempt, every
\* identifier before it having used all of its attempts too
C26_Witness ==
    /\ pc = "returned"
    /\ idx = Len(plan.queue)
    /\ idx = NumStocks
    /\ last.n = max_retries
    /\ ret = "False"
    /\ \A i \in 1..Len(results.rows) : results.rows[i].retry_count = Num(max_retries)

\* C27: when the ledger entry of the identifier being processed records a
\* failure, the fetch of that attempt starts with the rendered strategy, and
\* with the direct strategy when the ledger records no failure for it.
C27_LedgerFailureSelectsRendered ==
    [][(pc = "attempt" /\ last'.n > 0 /\ last'.tried # <<>>) =>
          last'.tried[1] = IF \E i \in RowsOfCurrent : results.rows[i].success = FALSE
                           THEN "rendered" ELSE "direct"]_vars

\* C28: the consecutive-failure counter is the number of identifiers that
\* ended in terminal failure since the last successful one: when
\* run_single_with_retry returns false after its last attempt, whatever the
\* kind of failure, the counter grows by one, and when it returns true the
\* counter is zero.
C28_ConsecutiveFailureCount ==
    [][(pc = "attempt" /\ pc' = "returned") =>
          consecutive_failures' = IF ret' = "True" THEN 0
                                  ELSE consecutive_failures + 1]_vars


(***************************************************************************)
(* DailySpec: the daily-series table of one fetch, row by row, through     *)
(* extract_current_prices, extract_daily_prices and                        *)
(* format_daily_price_table.  A body row (an element of rows[1:]) is given *)
(* by the number of its cells and by its first cell: a date (the year, the *)
(* day counted within the year, and whether month and day are written with *)
(* two digits) or some other text (year 0).                                *)
(***************************************************************************)
MaxBody == 3            \* body rows of a daily table written out row by row
MaxLong == 32           \* body rows of a daily table in date order

DateCell(year, day, padded) == [year |-> year, day |-> day, padded |-> padded]

NoDate == DateCell(0, 0, FALSE)

BodyRow(cells, date) == [cells |-> cells, date |-> date]

\* later dates rank higher
DateRank(date) == date.year * 1000 + date.day

\* re.match(r'202[45]/\d{2}/\d{2}', cells[0])  (poorstock.py 321 and 346)
MatchesDailyDate(date) == date.padded /\ MatchesDailyYear(date.year)

\* re.match(r'202[0-9]/\d{2}/\d{2}', cells[0])  (poorstock.py 244)
MatchesAnyDate(date) == date.padded /\ MatchesAnyYear(date.year)

\* a row of 6 cells or more that starts with a date the classifier's pattern takes
takes_daily_row_any_year(row) == row.cells >= 6 /\ MatchesAnyDate(row.date)

\* poorstock.py 346: the condition under which a body row is appended
takes_daily_row(row) == row.cells >= 6 /\ MatchesDailyDate(row.date)

\* the body rows with their position in the table: the position stands for the
\* values of the row's cells
Numbered(rows) ==
    [i \in 1..Len(rows) |-> [cells |-> rows[i].cells, date |-> rows[i].date, row |-> i]]

\* poorstock.py 333-358 on the body rows of the daily table: a record per row
\* taken, in table order
daily_prices_of(rows) == SelectSeq(Numbered(rows), takes_daily_row)

\* poorstock.py 317-328: the body row the fallback reads, 0 when it reads none
fallback_row(rows) ==
    IF /\ Len(rows) >= 1
       /\ rows[1].cells >= 5
       /\ MatchesDailyDate(rows[1].date)
    THEN 1 ELSE 0

RenderCap == 30             \* poorstock.py:422  daily_data[-30:]

Reversed(s) == [i \in 1..Len(s) |-> s[Len(s) + 1 - i]]

LastOf(s, n) == IF Len(s) <= n THEN s ELSE SubSeq(s, Len(s) - n + 1, Len(s))

\* poorstock.py 413-426: the rows of the rendered table under its two header
\* lines; <<>> stands for the placeholder sentence as well
format_daily_price_table(daily_data) == Reversed(LastOf(daily_data, RenderCap))

DailyDates ==
    {NoDate, DateCell(2023, 1, TRUE), DateCell(2025, 1, TRUE), DateCell(2025, 2, TRUE),
     DateCell(2025, 3, FALSE), DateCell(2026, 1, TRUE)}

\* tables with stray rows, short rows, dates of several years, in any order
ShortBodies ==
    UNION {[1..n -> {BodyRow(c, d) : c \in {5, 6}, d \in DailyDates}] : n \in 0..MaxBody}

\* tables of 2025 dates, oldest first or newest first
LongBodies ==
    {[i \in 1..n |-> BodyRow(6, DateCell(2025, IF up THEN i ELSE n + 1 - i, TRUE))] :
        n \in (RenderCap - 1)..MaxLong, up \in BOOLEAN}

\* the dedicated current-price table: absent, complete, or two rows only
DailyCurrentTables ==
    {{}, DailyRowPrices, {Label("OPEN", {"OPEN"}), Label("CLOSE", {"CLOSE"})}}

DailyInit ==
    /\ files = [id \in StockIds |-> NoFile]
    /\ results = MissingResults
    /\ latest = NoWrites
    /\ pc = "daily"
    /\ plan = NoPlan
    /\ idx = 0
    /\ attempt = 0
    /\ consecutive_failures = 0
    /\ ret = "none"
    /\ last = NoAttempt
    /\ now = 0
    /\ input \in [rows : ShortBodies \cup LongBodies, current : DailyCurrentTables]
    /\ output = <<>>

\* poorstock.py 297-298 and 555 with the daily table classified
ExtractDaily ==
    /\ pc = "daily"
    /\ pc' = "rendered"
    /\ output' =
          LET own == {r \in input.current : r.keys # {}}
              row == fallback_row(input.rows)
              daily_prices == daily_prices_of(input.rows)
          IN  [current_prices |-> extract_current_prices(input.current, row > 0),
               current_from |-> IF Cardinality(own) < 4 THEN row ELSE 0,
               daily_prices |-> daily_prices,
               table |-> format_daily_price_table(daily_prices)]
    /\ UNCHANGED <<files, results, latest, plan, idx, attempt, consecutive_failures, ret,
                   last, now, input>>

DailyNext == ExtractDaily

DailySpec == DailyInit /\ [][DailyNext]_vars

\* C31: extract_daily_prices emits one PriceBar, in source order, for every
\* body row that has 6 cells or more and starts with a zero-padded date of a
\* year the classifier accepts (2020 to 2029), and skips every other row.
C31_DailyRowsAllYears ==
    pc = "rendered" =>
       output.daily_prices = SelectSeq(Numbered(input.rows), takes_daily_row_any_year)

\* the dated rows of the table
DatedRows(rows) == {i \in 1..Len(rows) : rows[i].date # NoDate}

\* C32: current-price values come from the daily-series table only when the
\* dedicated table yields fewer than 4 of the 4 fields, and the row used is
\* then the latest-dated row of the daily-series table.
C32_FallbackMostRecentRow ==
    (pc = "rendered" /\ output.current_from > 0) =>
       /\ Cardinality(FieldsPresent(input.current)) < 4
       /\ output.current_from \in DatedRows(input.rows)
       /\ \A i \in DatedRows(input.rows) :
             DateRank(input.rows[i].date)
                <= DateRank(input.rows[output.current_from].date)

\* C33: the rendered daily table has 30 rows at most, and they are the
\* latest-dated extracted records, newest first, whatever order the page
\* lists its rows in.
C33_RenderedNewestFirst ==
    pc = "rendered" =>
       LET shown == {output.table[i].row : i \in 1..Len(output.table)}
           extracted == {output.daily_prices[i].row : i \in 1..Len(output.daily_prices)}
       IN  /\ Len(output.table) = Min(RenderCap, Len(output.daily_prices))
           /\ shown \subseteq extracted
           /\ \A i \in shown : \A j \in extracted \ shown :
                 DateRank(input.rows[j].date) <= DateRank(input.rows[i].date)
           /\ \A i \in 1..Len(output.table) : \A j \in i..Len(output.table) :
                 DateRank(output.table[j].date) <= DateRank(output.table[i].date)


\* the step is a run of the scraper in which fetch_page returned no html
UnfetchedRun == last'.n = last.n + 1 /\ last'.html = None

\* C34: when fetch_page returns no validated html for an identifier,
\* scrape_poorstock_enhanced leaves the identifier's existing document and the
\* whole ledger as they were.
C34_FetchFailureLeavesDisk ==
    [][UnfetchedRun => files' = files /\ results' = results]_vars

C34_Witness ==
    /\ last.n > 1
    /\ last.html = None
    /\ files[last.stock_id].exists
    /\ RowsOf(ExpectedFilename(last.stock_id)) # {}


\* C35: in every ledger state reached from a missing ledger through scraper
\* result upserts and orchestrator failure records, a row whose
\* last_update_time is FAILED has success = false.
C35_FailedSentinelNeverSuccess ==
    \A i \in 1..Len(results.rows) :
        results.rows[i].last_update_time = "FAILED" => ~results.rows[i].success

\* one row carries the sentinel while another, recorded as failed earlier, has
\* since been written by a successful scraper run
C35_Witness ==
    /\ \E i \in 1..Len(results.rows) : results.rows[i].last_update_time = "FAILED"
    /\ \E i \in 1..Len(results.rows) :
          /\ results.rows[i].success
          /\ results.rows[i].retry_count = Num(retry_mode_retries)


\* C36: after run_single_with_retry returns True for an identifier, the
\* identifier's ledger row has success = true and a last_update_time other than
\* FAILED, also when the row was marked FAILED before; neither a bucketing pass
\* nor a retry-failed run that follows at once takes the identifier as failed.
C36_SuccessClearsFailedMark ==
    (pc = "returned" /\ ret = "True") =>
       LET rows == RowsOf(ExpectedFilename(CurrentStock))
       IN  /\ rows # {}
           /\ \A i \in rows : /\ results.rows[i].success
                              /\ results.rows[i].last_update_time # "FAILED"
           /\ CurrentStock \notin
                 Range(determine_processing_strategy(stock_df, files, results).failed_stocks)
           /\ CurrentStock \notin Range(failed_stock_ids(results))

\* the identifier's row still carries the retry count of the earlier failure
C36_Witness ==
    /\ pc = "returned"
    /\ ret = "True"
    /\ \E i \in RowsOf(ExpectedFilename(CurrentStock)) :
          results.rows[i].retry_count = Num(max_retries)


(***************************************************************************)
(* StaleLedgerSpec: determine_processing_strategy on a disk whose ledger   *)
(* was written while the reference list held one identifier more           *)
(* (ForeignId), which has been taken off the list since.  Documents are    *)
(* absent, fresh or older than 24 hours.                                   *)
(***************************************************************************)
StaleLedgerInit ==
    /\ files \in [StockIds -> {NoFile, SavedFile(DocContent(PageComplete), 0),
                               SavedFile(DocContent(PageComplete), 25)}]
    /\ \E disk \in RetryDisks : results = RetryDiskResults(disk)
    /\ latest = NoWrites
    /\ pc = "disk"
    /\ plan = NoPlan
    /\ RunIdle

StaleLedgerNext == Bucket

StaleLedgerSpec == StaleLedgerInit /\ [][StaleLedgerNext]_vars

\* C37: every identifier of the work queue determine_processing_strategy
\* returns is in the reference list read for the run, also when the ledger
\* holds failed rows of identifiers that are not in the list.
C37_QueueWithinReferenceList ==
    pc = "bucketed" => Range(plan.queue) \subseteq StockIds


(***************************************************************************)
(* AutoSpec: the choice of the first strategy from ledger history,         *)
(* scrape_poorstock_enhanced(stock_id) called with use_selenium left at    *)
(* None (poorstock.py 480-492).  A ledger row is given by the identifier   *)
(* in its filename poorstock_<id>_<name>.md and by its success value; the  *)
(* names of the sample hold no digits.                                     *)
(***************************************************************************)
MaxLedgerRows == 3      \* rows of the ledger read

\* identifiers of the sample: 233 contains the digits of 23
SampleIds == {23, 233, 45}

RECURSIVE Str(_)
\* str(stock_id): the decimal digits
Str(n) == IF n < 10 THEN <<n>> ELSE Append(Str(n \div 10), n % 10)

\* sub in s, for strings
Contains(s, sub) ==
    \E i \in 1..(Len(s) - Len(sub) + 1) : SubSeq(s, i, i + Len(sub) - 1) = sub

\* poorstock.py 480-492: the value use_selenium gets
auto_use_selenium(stock_id, res) ==
    IF res.exists
    THEN LET Test(row) == Contains(Str(row.stock_id), Str(stock_id))
             stock_results == SelectSeq(res.rows, Test)
         IN  stock_results # <<>> /\ ~stock_results[1].success
    ELSE FALSE

\* ledgers with one row per filename at most, or no ledger file
AutoLedgers ==
    {[exists |-> FALSE, rows |-> <<>>]} \cup
    {[exists |-> TRUE, rows |-> rows] :
        rows \in {r \in UNION {[1..n -> [stock_id : SampleIds, success : BOOLEAN]] :
                                  n \in 0..MaxLedgerRows} :
                    \A i, j \in 1..Len(r) : r[i].stock_id = r[j].stock_id => i = j}}

AutoInit ==
    /\ files = [id \in StockIds |-> NoFile]
    /\ results = MissingResults
    /\ latest = NoWrites
    /\ pc = "auto"
    /\ plan = NoPlan
    /\ idx = 0
    /\ attempt = 0
    /\ consecutive_failures = 0
    /\ ret = "none"
    /\ last = NoAttempt
    /\ now = 0
    /\ input \in [stock_id : SampleIds, ledger : AutoLedgers]
    /\ output = <<>>

AutoDetect ==
    /\ pc = "auto"
    /\ pc' = "chosen"
    /\ output' = <<auto_use_selenium(input.stock_id, input.ledger)>>
    /\ UNCHANGED <<files, results, latest, plan, idx, attempt, consecutive_failures, ret,
                   last, now, input>>

AutoNext == AutoDetect

AutoSpec == AutoInit /\ [][AutoNext]_vars

\* C38: the automatic choice depends only on the ledger row of the identifier
\* being processed: the rendered strategy is chosen exactly when that row
\* exists and has success = false, whatever rows of other identifiers whose
\* filename contains the identifier's digits say.
C38_AutoChoiceOwnRowOnly ==
    pc = "chosen" =>
       output = <<\E i \in 1..Len(input.ledger.rows) :
                     /\ input.ledger.rows[i].stock_id = input.stock_id
                     /\ ~input.ledger.rows[i].success>>


====
